---- MODULE Spec2Model ----
(***************************************************************************)
(* mem-db: an in-memory table store (package db), its command dispatcher   *)
(* (server/main.go) and the snapshot file it saves to and loads from.      *)
(*                                                                         *)
(* Values are Go interface{} values: a dynamic type and a payload.  A      *)
(* float64 is kept in halves (v = 2 is 1.0, v = 3 is 1.5), so that the     *)
(* integrality test of validateValueType is computed, not assumed.         *)
(***************************************************************************)
EXTENDS Integers, Sequences, FiniteSets, TLC

VARIABLES
    tables,     \* Database.tables: table name -> Table (Name, Columns, Rows)
    fs,         \* the files database.json and database.json.bak
    cmd,        \* the call being served: a protocol.Command, or a direct Table call
    response,   \* the protocol.Response (or the call's result) of cmd
    faults,     \* number of file operations that have failed so far
    mu,         \* the RWMutex of the Database ("db") and of every Table (its name)
    conn,       \* the goroutines that run a method of package db step by step
    replaced    \* per LoadFromDisk that has replaced db.tables: the Tables (with
                \* their mutexes) it has removed while a goroutine referred to them

vars == <<tables, fs, cmd, response, faults, mu, conn, replaced>>

(***************************************************************************)
(* Bounds of the model.                                                    *)
(***************************************************************************)
MaxRows == 3        \* rows a table may hold before Insert is no longer tried
MaxFaults == 1      \* file operations that may fail in one behaviour
MaxConns == 3       \* goroutines that call package db at the same time

(***************************************************************************)
(* Program constants.                                                      *)
(***************************************************************************)
TypeInt == 0
TypeString == 1
DEFAULT_DB_FILE == "database.json"
backupFile == "database.json.bak"

Paths == {DEFAULT_DB_FILE, backupFile}

(***************************************************************************)
(* Values and maps.                                                        *)
(***************************************************************************)
Float64(h) == [type |-> "float64", v |-> h]
GoInt(n) == [type |-> "int", v |-> n]
String(n) == [type |-> "string", v |-> n]
Nil == [type |-> "nil", v |-> 0]

EmptyMap == [k \in {} |-> Nil]

\* m[k] of a Go map: the zero value (a nil interface) when k is absent
MapIndex(m, k) == IF k \in DOMAIN m THEN m[k] ELSE Nil

\* m[k] = v of a Go map
MapAssign(m, k, v) == [x \in DOMAIN m \cup {k} |-> IF x = k THEN v ELSE m[x]]

\* all maps from a subset of keys K to values V
Maps(K, V) == UNION {[S -> V] : S \in SUBSET K}

(***************************************************************************)
(* sync.RWMutex: one writer, or any number of readers.                     *)
(***************************************************************************)
Free == [writer |-> 0, readers |-> {}]

\* Lock() returns at once
CanLock_always(l) == TRUE

\* Lock() returns once no goroutine holds the mutex
CanLock(l) == l.writer = 0 /\ l.readers = {}
\* RLock() returns at once
CanRLock_always(l) == TRUE

\* RLock() returns once no writer holds the mutex
CanRLock(l) == l.writer = 0

Lock(l, c) == [l EXCEPT !.writer = c]
Unlock(l, c) == [l EXCEPT !.writer = 0]
RLock(l, c) == [l EXCEPT !.readers = @ \cup {c}]
RUnlock(l, c) == [l EXCEPT !.readers = @ \ {c}]

(***************************************************************************)
(* Errors and responses.                                                   *)
(***************************************************************************)
NoErr == [kind |-> "", col |-> ""]
Err(kind, col) == [kind |-> kind, col |-> col]

NoData == [kind |-> "none", rows |-> <<>>, count |-> 0]
RowsData(rows) == [kind |-> "rows", rows |-> rows, count |-> 0]
CountData(n) == [kind |-> "count", rows |-> <<>>, count |-> n]
InfoData(cols) == [kind |-> "info", rows |-> cols, count |-> 0]

Response(success, data, err) == [Success |-> success, Data |-> data, Error |-> err]

(***************************************************************************)
(* validateValueType (table operations).                                   *)
(***************************************************************************)
\* int(v) of a float64 kept in halves: truncation
IntOfFloat(h) == h \div 2
\* float64(n) of an int, in halves
FloatOfInt(n) == 2 * n

validateValueType(col, val) ==
    CASE col.Type = TypeInt ->
            CASE val.type = "int" -> NoErr
              [] val.type = "float64" ->
                    IF val.v = FloatOfInt(IntOfFloat(val.v))
                    THEN NoErr
                    ELSE Err("TypeMismatch", col.Name)
              [] OTHER -> Err("TypeMismatch", col.Name)
      [] col.Type = TypeString ->
            IF val.type # "string" THEN Err("TypeMismatch", col.Name) ELSE NoErr
      [] OTHER -> Err("UnsupportedType", col.Name)

(***************************************************************************)
(* Conditions: the func(row) bool a Table method is given.  The handlers   *)
(* always build a closure over the payload's Conditions map; a direct      *)
(* caller of the package may pass nil.                                     *)
(***************************************************************************)
NilCondition == [isNil |-> TRUE, conds |-> EmptyMap]
Closure(conds) == [isNil |-> FALSE, conds |-> conds]

\* the closure body of handleSelect / handleUpdate / handleDelete
condition(conds, row) == \A k \in DOMAIN conds : MapIndex(row, k) = conds[k]

(***************************************************************************)
(* Table.Insert                                                            *)
(***************************************************************************)
RECURSIVE InsertLoop(_, _, _, _)

\* a loop that skips a column the input leaves out instead of failing
InsertLoop_skipsMissing(Columns, i, values, row) ==
    IF i > Len(Columns)
    THEN [err |-> NoErr, row |-> row]
    ELSE LET col == Columns[i] IN
         IF col.Name \notin DOMAIN values
         THEN InsertLoop(Columns, i + 1, values, row)
         ELSE LET e == validateValueType(col, values[col.Name]) IN
              IF e # NoErr
              THEN [err |-> e, row |-> row]
              ELSE InsertLoop(Columns, i + 1, values,
                              MapAssign(row, col.Name, values[col.Name]))

InsertLoop(Columns, i, values, row) ==
    IF i > Len(Columns)
    THEN [err |-> NoErr, row |-> row]
    ELSE LET col == Columns[i] IN
         IF col.Name \notin DOMAIN values
         THEN [err |-> Err("MissingColumn", col.Name), row |-> row]
         ELSE LET e == validateValueType(col, values[col.Name]) IN
              IF e # NoErr
              THEN [err |-> e, row |-> row]
              ELSE InsertLoop(Columns, i + 1, values,
                              MapAssign(row, col.Name, values[col.Name]))

\* an Insert that stores the input map itself, keys that are no column included
TableInsert_storesInput(t, values) ==
    LET r == InsertLoop(t.Columns, 1, values, EmptyMap) IN
    IF r.err # NoErr
    THEN [err |-> r.err, table |-> t]
    ELSE [err |-> NoErr, table |-> [t EXCEPT !.Rows = Append(@, values)]]

TableInsert(t, values) ==
    LET r == InsertLoop(t.Columns, 1, values, EmptyMap) IN
    IF r.err # NoErr
    THEN [err |-> r.err, table |-> t]
    ELSE [err |-> NoErr, table |-> [t EXCEPT !.Rows = Append(@, r.row)]]

(***************************************************************************)
(* Table.Select                                                            *)
(***************************************************************************)
RECURSIVE SelectLoop(_, _, _, _)
SelectLoop(Rows, i, cond, result) ==
    IF i > Len(Rows)
    THEN result
    ELSE IF cond.isNil \/ condition(cond.conds, Rows[i])
         THEN SelectLoop(Rows, i + 1, cond, Append(result, Rows[i]))
         ELSE SelectLoop(Rows, i + 1, cond, result)

TableSelect(t, cond) == SelectLoop(t.Rows, 1, cond, <<>>)

(***************************************************************************)
(* Table.Update                                                            *)
(***************************************************************************)
RECURSIVE UpdateValidate(_, _, _)
UpdateValidate(Columns, i, values) ==
    IF i > Len(Columns)
    THEN NoErr
    ELSE LET col == Columns[i] IN
         IF col.Name \in DOMAIN values
         THEN LET e == validateValueType(col, values[col.Name]) IN
              IF e # NoErr THEN e ELSE UpdateValidate(Columns, i + 1, values)
         ELSE UpdateValidate(Columns, i + 1, values)

\* for colName, val := range values { row[colName] = val }
RECURSIVE UpdateRow(_, _, _)

\* an update that replaces the row by the values instead of merging them into it
UpdateRow_replaces(row, values, todo) == values

UpdateRow(row, values, todo) ==
    IF todo = {}
    THEN row
    ELSE LET colName == CHOOSE k \in todo : TRUE IN
         UpdateRow(MapAssign(row, colName, values[colName]), values, todo \ {colName})

RECURSIVE UpdateLoop(_, _, _, _, _)
UpdateLoop(Rows, i, cond, values, updated) ==
    IF i > Len(Rows)
    THEN [rows |-> Rows, updated |-> updated]
    ELSE IF cond.isNil \/ condition(cond.conds, Rows[i])
         THEN UpdateLoop([Rows EXCEPT ![i] = UpdateRow(@, values, DOMAIN values)],
                         i + 1, cond, values, TRUE)
         ELSE UpdateLoop(Rows, i + 1, cond, values, updated)

\* an Update that reports success when no row matched
TableUpdate_ignoresUpdated(t, cond, values) ==
    LET e == UpdateValidate(t.Columns, 1, values) IN
    IF e # NoErr
    THEN [err |-> e, table |-> t]
    ELSE [err |-> NoErr,
          table |-> [t EXCEPT !.Rows = UpdateLoop(t.Rows, 1, cond, values, FALSE).rows]]

TableUpdate(t, cond, values) ==
    LET e == UpdateValidate(t.Columns, 1, values) IN
    IF e # NoErr
    THEN [err |-> e, table |-> t]
    ELSE LET r == UpdateLoop(t.Rows, 1, cond, values, FALSE) IN
         IF ~r.updated
         THEN [err |-> Err("NotFound", ""), table |-> [t EXCEPT !.Rows = r.rows]]
         ELSE [err |-> NoErr, table |-> [t EXCEPT !.Rows = r.rows]]

(***************************************************************************)
(* Table.Delete                                                            *)
(***************************************************************************)
RECURSIVE DeleteLoop(_, _, _, _)

\* a loop that stops filtering after the first row it removes
DeleteLoop_stopsAtFirst(Rows, i, cond, newRows) ==
    IF i > Len(Rows)
    THEN newRows
    ELSE IF cond.isNil \/ ~condition(cond.conds, Rows[i])
         THEN DeleteLoop(Rows, i + 1, cond, Append(newRows, Rows[i]))
         ELSE newRows \o SubSeq(Rows, i + 1, Len(Rows))

DeleteLoop(Rows, i, cond, newRows) ==
    IF i > Len(Rows)
    THEN newRows
    ELSE IF cond.isNil \/ ~condition(cond.conds, Rows[i])
         THEN DeleteLoop(Rows, i + 1, cond, Append(newRows, Rows[i]))
         ELSE DeleteLoop(Rows, i + 1, cond, newRows)

TableDelete(t, cond) ==
    LET originalLen == Len(t.Rows)
        newRows == DeleteLoop(t.Rows, 1, cond, <<>>)
        deletedCount == originalLen - Len(newRows)
    IN  IF deletedCount = 0
        THEN [count |-> 0, err |-> Err("NotFound", ""), table |-> t]
        ELSE [count |-> deletedCount, err |-> NoErr,
              table |-> [t EXCEPT !.Rows = newRows]]

(***************************************************************************)
(* Database: CreateTable, GetTable, GetTableInfo                           *)
(***************************************************************************)
Table(name, columns, rows) == [Name |-> name, Columns |-> columns, Rows |-> rows]

\* a CreateTable that replaces the table of that name instead of failing
CreateTable_overwrites(tbls, name, columns) ==
    [err |-> NoErr,
     tables |-> [n \in DOMAIN tbls \cup {name} |->
                   IF n = name THEN Table(name, columns, <<>>) ELSE tbls[n]]]

CreateTable(tbls, name, columns) ==
    IF name \in DOMAIN tbls
    THEN [err |-> Err("DuplicateTable", name), tables |-> tbls]
    ELSE [err |-> NoErr,
          tables |-> [n \in DOMAIN tbls \cup {name} |->
                        IF n = name THEN Table(name, columns, <<>>) ELSE tbls[n]]]

GetTable(tbls, name) ==
    IF name \notin DOMAIN tbls
    THEN [err |-> Err("TableNotFound", name), table |-> Table(name, <<>>, <<>>)]
    ELSE [err |-> NoErr, table |-> tbls[name]]

GetTableInfo(tbls, name) ==
    IF name \notin DOMAIN tbls
    THEN [err |-> Err("TableNotFound", name), columns |-> <<>>]
    ELSE [err |-> NoErr,
          columns |-> [i \in 1..Len(tbls[name].Columns) |->
                         [Name |-> tbls[name].Columns[i].Name,
                          Type |-> IF tbls[name].Columns[i].Type = TypeInt
                                   THEN "int" ELSE "string"]]]

\* db.tables[name] = table after a Table method has changed it in place
StoreTable(tbls, name, t) == [tbls EXCEPT ![name] = t]

(***************************************************************************)
(* The snapshot file: encoding/json of map[string]TableData.               *)
(***************************************************************************)
\* an encoding that writes every value as a JSON string
EncodeValue_quoted(val) == [json |-> "string", v |-> val.v]

EncodeValue(val) ==
    CASE val.type = "float64" -> [json |-> "number", v |-> val.v]
      [] val.type = "int" -> [json |-> "number", v |-> FloatOfInt(val.v)]
      [] val.type = "string" -> [json |-> "string", v |-> val.v]
      [] OTHER -> [json |-> "null", v |-> 0]

DecodeValue(j) ==
    CASE j.json = "number" -> Float64(j.v)
      [] j.json = "string" -> String(j.v)
      [] OTHER -> Nil

\* the JSON text of a row that is a nil map
JSONNull == [json |-> "null", v |-> 0]

EncodeRow(row) == [k \in DOMAIN row |-> EncodeValue(row[k])]
\* null decodes to a nil map, which reads as a map without keys
DecodeRow(jrow) ==
    IF jrow = JSONNull THEN EmptyMap ELSE [k \in DOMAIN jrow |-> DecodeValue(jrow[k])]

EncodeColumn(col) == [name |-> col.Name, type |-> col.Type]
DecodeColumn(jcol) == [Name |-> jcol.name, Type |-> jcol.type]

\* &Table{Name: tableData.Name, Columns: tableData.Columns, Rows: tableData.Rows}
DecodeTable(td) ==
    Table(td.name,
          [i \in 1..Len(td.columns) |-> DecodeColumn(td.columns[i])],
          [i \in 1..Len(td.rows) |-> DecodeRow(td.rows[i])])

TableData(t) ==
    [name |-> t.Name,
     columns |-> [i \in 1..Len(t.Columns) |-> EncodeColumn(t.Columns[i])],
     rows |-> [i \in 1..Len(t.Rows) |-> EncodeRow(t.Rows[i])]]

Encode(tbls) == [name \in DOMAIN tbls |-> TableData(tbls[name])]

\* for _, tableData := range data { db.tables[tableData.Name] = &Table{...} }
Decode(data) ==
    LET names == {data[k].name : k \in DOMAIN data}
        entry(n) == data[CHOOSE k \in DOMAIN data : data[k].name = n]
    IN  [n \in names |->
            Table(entry(n).name,
                  [i \in 1..Len(entry(n).columns) |-> DecodeColumn(entry(n).columns[i])],
                  [i \in 1..Len(entry(n).rows) |-> DecodeRow(entry(n).rows[i])])]

FileAbsent == [state |-> "absent", data |-> EmptyMap]
FilePartial == [state |-> "partial", data |-> EmptyMap]
FileJSON(data) == [state |-> "json", data |-> data]

\* how a write of the snapshot can end: os.Create fails, Encode fails, or neither
SaveOutcomes == {"ok", "create_error", "encode_error"}

SaveToDisk(tbls, file, outcome) ==
    CASE outcome = "create_error" -> [err |-> Err("IOError", ""), file |-> file]
      [] outcome = "encode_error" -> [err |-> Err("IOError", ""), file |-> FilePartial]
      [] OTHER -> [err |-> NoErr, file |-> FileJSON(Encode(tbls))]

\* a Load that empties the catalog before it opens the file
LoadFromDisk_clearsFirst(tbls, file) ==
    CASE file.state = "absent" -> [err |-> Err("IOError", ""), tables |-> EmptyMap]
      [] file.state = "partial" -> [err |-> Err("DecodeError", ""), tables |-> EmptyMap]
      [] OTHER -> [err |-> NoErr, tables |-> Decode(file.data)]

LoadFromDisk(tbls, file) ==
    CASE file.state = "absent" -> [err |-> Err("IOError", ""), tables |-> tbls]
      [] file.state = "partial" -> [err |-> Err("DecodeError", ""), tables |-> tbls]
      [] OTHER -> [err |-> NoErr, tables |-> Decode(file.data)]

\* the number of failed file operations among the given outcomes
Failed(outcomes) == Cardinality({i \in DOMAIN outcomes : outcomes[i] # "ok"})

(***************************************************************************)
(* Commands.                                                               *)
(***************************************************************************)
Command(type, name, columns, values, conds, direct) ==
    [Type |-> type, TableName |-> name, Columns |-> columns,
     Values |-> values, Conditions |-> conds, direct |-> direct]

NoCommand == Command("None", "", <<>>, EmptyMap, EmptyMap, FALSE)

\* an autoSave that does not call SaveToDisk
autoSave_skipped(tbls, files, outcome) == files

\* autoSave: SaveToDisk(DEFAULT_DB_FILE), its error only logged
autoSave(tbls, files, outcome) ==
    [files EXCEPT ![DEFAULT_DB_FILE] = SaveToDisk(tbls, @, outcome).file]

\* return protocol.Response{Success: true} of handleInsert and handleUpdate
InsertResponse(r) == Response(TRUE, NoData, NoErr)
\* a response that carries the table's row count as data
UpdateResponse_withCount(r) == Response(TRUE, CountData(Len(r.table.Rows)), NoErr)
UpdateResponse(r) == Response(TRUE, NoData, NoErr)
\* a Delete response without the count
DeleteResponse_noData(r) == Response(TRUE, NoData, NoErr)

\* Data: fmt.Sprintf("Deleted %d records", count) of handleDelete
DeleteResponse(r) == Response(TRUE, CountData(r.count), NoErr)

handleCreateTable(name, columns, outcome) ==
    /\ cmd' = Command("CreateTable", name, columns, EmptyMap, EmptyMap, FALSE)
    /\ UNCHANGED <<mu, conn, replaced>>
    /\ IF \E i \in 1..Len(columns) : columns[i].Type \notin {"int", "string"}
       THEN /\ response' = Response(FALSE, NoData, Err("InvalidColumnType", ""))
            /\ UNCHANGED <<tables, fs, faults>>
       ELSE LET cols == [i \in 1..Len(columns) |->
                            [Name |-> columns[i].Name,
                             Type |-> IF columns[i].Type = "int"
                                      THEN TypeInt ELSE TypeString]]
                r == CreateTable(tables, name, cols)
            IN  IF r.err # NoErr
                THEN /\ response' = Response(FALSE, NoData, r.err)
                     /\ UNCHANGED <<tables, fs, faults>>
                ELSE /\ faults + Failed(<<outcome>>) <= MaxFaults
                     /\ tables' = r.tables
                     /\ fs' = autoSave(r.tables, fs, outcome)
                     /\ faults' = faults + Failed(<<outcome>>)
                     /\ response' = Response(TRUE, NoData, NoErr)

\* a handler whose failed Insert leaves the row built so far in the table
handleInsert_keepsPartialRow(name, values, outcome) ==
    /\ cmd' = Command("Insert", name, <<>>, values, EmptyMap, FALSE)
    /\ UNCHANGED <<mu, conn, replaced>>
    /\ LET g == GetTable(tables, name) IN
       IF g.err # NoErr
       THEN /\ response' = Response(FALSE, NoData, g.err)
            /\ UNCHANGED <<tables, fs, faults>>
       ELSE LET r == TableInsert(g.table, values) IN
            IF r.err # NoErr
            THEN /\ response' = Response(FALSE, NoData, r.err)
                 /\ tables' = StoreTable(tables, name,
                                 [g.table EXCEPT !.Rows =
                                     Append(@, InsertLoop(g.table.Columns, 1, values, EmptyMap).row)])
                 /\ UNCHANGED <<fs, faults>>
            ELSE /\ faults + Failed(<<outcome>>) <= MaxFaults
                 /\ tables' = StoreTable(tables, name, r.table)
                 /\ fs' = autoSave(tables', fs, outcome)
                 /\ faults' = faults + Failed(<<outcome>>)
                 /\ response' = InsertResponse(r)

handleInsert(name, values, outcome) ==
    /\ cmd' = Command("Insert", name, <<>>, values, EmptyMap, FALSE)
    /\ UNCHANGED <<mu, conn, replaced>>
    /\ LET g == GetTable(tables, name) IN
       IF g.err # NoErr
       THEN /\ response' = Response(FALSE, NoData, g.err)
            /\ UNCHANGED <<tables, fs, faults>>
       ELSE LET r == TableInsert(g.table, values) IN
            IF r.err # NoErr
            THEN /\ response' = Response(FALSE, NoData, r.err)
                 /\ UNCHANGED <<tables, fs, faults>>
            ELSE /\ faults + Failed(<<outcome>>) <= MaxFaults
                 /\ tables' = StoreTable(tables, name, r.table)
                 /\ fs' = autoSave(tables', fs, outcome)
                 /\ faults' = faults + Failed(<<outcome>>)
                 /\ response' = InsertResponse(r)

handleSelect(name, conds) ==
    /\ cmd' = Command("Select", name, <<>>, EmptyMap, conds, FALSE)
    /\ UNCHANGED <<mu, conn, replaced>>
    /\ LET g == GetTable(tables, name) IN
       IF g.err # NoErr
       THEN response' = Response(FALSE, NoData, g.err)
       ELSE response' = Response(TRUE, RowsData(TableSelect(g.table, Closure(conds))), NoErr)
    /\ UNCHANGED <<tables, fs, faults>>

handleUpdate(name, conds, values, outcome) ==
    /\ cmd' = Command("Update", name, <<>>, values, conds, FALSE)
    /\ UNCHANGED <<mu, conn, replaced>>
    /\ LET g == GetTable(tables, name) IN
       IF g.err # NoErr
       THEN /\ response' = Response(FALSE, NoData, g.err)
            /\ UNCHANGED <<tables, fs, faults>>
       ELSE LET r == TableUpdate(g.table, Closure(conds), values) IN
            IF r.err # NoErr
            THEN /\ response' = Response(FALSE, NoData, r.err)
                 /\ tables' = StoreTable(tables, name, r.table)
                 /\ UNCHANGED <<fs, faults>>
            ELSE /\ faults + Failed(<<outcome>>) <= MaxFaults
                 /\ tables' = StoreTable(tables, name, r.table)
                 /\ fs' = autoSave(tables', fs, outcome)
                 /\ faults' = faults + Failed(<<outcome>>)
                 /\ response' = UpdateResponse(r)

handleDelete(name, conds, outcome) ==
    /\ cmd' = Command("Delete", name, <<>>, EmptyMap, conds, FALSE)
    /\ UNCHANGED <<mu, conn, replaced>>
    /\ LET g == GetTable(tables, name) IN
       IF g.err # NoErr
       THEN /\ response' = Response(FALSE, NoData, g.err)
            /\ UNCHANGED <<tables, fs, faults>>
       ELSE LET r == TableDelete(g.table, Closure(conds)) IN
            IF r.err # NoErr
            THEN /\ response' = Response(FALSE, NoData, r.err)
                 /\ UNCHANGED <<tables, fs, faults>>
            ELSE /\ faults + Failed(<<outcome>>) <= MaxFaults
                 /\ tables' = StoreTable(tables, name, r.table)
                 /\ fs' = autoSave(tables', fs, outcome)
                 /\ faults' = faults + Failed(<<outcome>>)
                 /\ response' = DeleteResponse(r)

handleGetTableInfo(name) ==
    /\ cmd' = Command("GetTableInfo", name, <<>>, EmptyMap, EmptyMap, FALSE)
    /\ UNCHANGED <<mu, conn, replaced>>
    /\ LET r == GetTableInfo(tables, name) IN
       IF r.err # NoErr
       THEN response' = Response(FALSE, NoData, r.err)
       ELSE response' = Response(TRUE, InfoData(r.columns), NoErr)
    /\ UNCHANGED <<tables, fs, faults>>

\* the file a path names: a path nothing was written to holds no file
FileAt(files, path) == IF path \in DOMAIN files THEN files[path] ELSE FileAbsent

\* payload is the interface value of cmd.Payload: nil, or what the decoder stored
handleLoadFromDisk(payload) ==
    /\ cmd' = Command("LoadFromDisk", "", <<>>, EmptyMap, EmptyMap, FALSE)
    /\ UNCHANGED <<mu, conn, replaced>>
    /\ IF payload.type \notin {"nil", "string"}
       THEN /\ response' = Response(FALSE, NoData, Err("InvalidPayload", ""))
            /\ UNCHANGED tables
       ELSE LET filename == IF payload.type = "string" THEN payload.v ELSE DEFAULT_DB_FILE
                r == LoadFromDisk(tables, FileAt(fs, filename))
            IN  /\ tables' = r.tables
                /\ response' = IF r.err # NoErr
                               THEN Response(FALSE, NoData, r.err)
                               ELSE Response(TRUE, NoData, NoErr)
    /\ UNCHANGED <<fs, faults>>

\* a Save that leaves the backup where it is when the write has failed
handleSaveToDisk_noRestore(backup, write, restore, remove) ==
    /\ cmd' = Command("SaveToDisk", "", <<>>, EmptyMap, EmptyMap, FALSE)
    /\ UNCHANGED <<mu, conn, replaced>>
    /\ LET renamed == fs[DEFAULT_DB_FILE].state # "absent" /\ backup = "ok"
           fs1 == IF renamed
                  THEN [fs EXCEPT ![backupFile] = fs[DEFAULT_DB_FILE],
                                  ![DEFAULT_DB_FILE] = FileAbsent]
                  ELSE fs
           s == SaveToDisk(tables, fs1[DEFAULT_DB_FILE], write)
           fs2 == [fs1 EXCEPT ![DEFAULT_DB_FILE] = s.file]
       IN  IF s.err # NoErr
           THEN /\ fs' = fs2
                /\ remove = "ok"
                /\ (fs2[backupFile].state = "absent" => restore = "ok")
                /\ response' = Response(FALSE, NoData, s.err)
           ELSE /\ fs' = IF remove = "ok"
                         THEN [fs2 EXCEPT ![backupFile] = FileAbsent]
                         ELSE fs2
                /\ restore = "ok"
                /\ (fs2[backupFile].state = "absent" => remove = "ok")
                /\ response' = Response(TRUE, NoData, NoErr)
    /\ (fs[DEFAULT_DB_FILE].state = "absent" => backup = "ok")
    /\ faults' = faults + Failed(<<backup, write, restore, remove>>)
    /\ faults' <= MaxFaults
    /\ UNCHANGED tables

\* a Save that reports the failure of the backup's removal as its own
handleSaveToDisk_removalFatal(backup, write, restore, remove) ==
    /\ cmd' = Command("SaveToDisk", "", <<>>, EmptyMap, EmptyMap, FALSE)
    /\ UNCHANGED <<mu, conn, replaced>>
    /\ LET renamed == fs[DEFAULT_DB_FILE].state # "absent" /\ backup = "ok"
           fs1 == IF renamed
                  THEN [fs EXCEPT ![backupFile] = fs[DEFAULT_DB_FILE],
                                  ![DEFAULT_DB_FILE] = FileAbsent]
                  ELSE fs
           s == SaveToDisk(tables, fs1[DEFAULT_DB_FILE], write)
           fs2 == [fs1 EXCEPT ![DEFAULT_DB_FILE] = s.file]
       IN  IF s.err # NoErr
           THEN /\ fs' = IF fs2[backupFile].state # "absent" /\ restore = "ok"
                         THEN [fs2 EXCEPT ![DEFAULT_DB_FILE] = fs2[backupFile],
                                          ![backupFile] = FileAbsent]
                         ELSE fs2
                /\ remove = "ok"
                /\ (fs2[backupFile].state = "absent" => restore = "ok")
                /\ response' = Response(FALSE, NoData, s.err)
           ELSE /\ fs' = IF remove = "ok"
                         THEN [fs2 EXCEPT ![backupFile] = FileAbsent]
                         ELSE fs2
                /\ restore = "ok"
                /\ (fs2[backupFile].state = "absent" => remove = "ok")
                /\ response' = IF remove = "ok"
                               THEN Response(TRUE, NoData, NoErr)
                               ELSE Response(FALSE, NoData, Err("IOError", ""))
    /\ (fs[DEFAULT_DB_FILE].state = "absent" => backup = "ok")
    /\ faults' = faults + Failed(<<backup, write, restore, remove>>)
    /\ faults' <= MaxFaults
    /\ UNCHANGED tables

\* handleSaveToDisk: back up, write, restore the backup on failure, remove it on success
handleSaveToDisk(backup, write, restore, remove) ==
    /\ cmd' = Command("SaveToDisk", "", <<>>, EmptyMap, EmptyMap, FALSE)
    /\ UNCHANGED <<mu, conn, replaced>>
    /\ LET renamed == fs[DEFAULT_DB_FILE].state # "absent" /\ backup = "ok"
           fs1 == IF renamed
                  THEN [fs EXCEPT ![backupFile] = fs[DEFAULT_DB_FILE],
                                  ![DEFAULT_DB_FILE] = FileAbsent]
                  ELSE fs
           s == SaveToDisk(tables, fs1[DEFAULT_DB_FILE], write)
           fs2 == [fs1 EXCEPT ![DEFAULT_DB_FILE] = s.file]
       IN  IF s.err # NoErr
           THEN /\ fs' = IF fs2[backupFile].state # "absent" /\ restore = "ok"
                         THEN [fs2 EXCEPT ![DEFAULT_DB_FILE] = fs2[backupFile],
                                          ![backupFile] = FileAbsent]
                         ELSE fs2
                /\ remove = "ok"
                /\ (fs2[backupFile].state = "absent" => restore = "ok")
                /\ response' = Response(FALSE, NoData, s.err)
           ELSE /\ fs' = IF remove = "ok"
                         THEN [fs2 EXCEPT ![backupFile] = FileAbsent]
                         ELSE fs2
                /\ restore = "ok"
                /\ (fs2[backupFile].state = "absent" => remove = "ok")
                /\ response' = Response(TRUE, NoData, NoErr)
    /\ (fs[DEFAULT_DB_FILE].state = "absent" => backup = "ok")
    /\ faults' = faults + Failed(<<backup, write, restore, remove>>)
    /\ faults' <= MaxFaults
    /\ UNCHANGED tables

\* handleCommand, default: a type that is none of the eight
handleUnknown ==
    /\ cmd' = Command("Unknown", "", <<>>, EmptyMap, EmptyMap, FALSE)
    /\ UNCHANGED <<mu, conn, replaced>>
    /\ response' = Response(FALSE, NoData, Err("UnknownCommand", ""))
    /\ UNCHANGED <<tables, fs, faults>>

(***************************************************************************)
(* Direct calls of the Table methods with a nil condition function.        *)
(***************************************************************************)
TableSelectNil(name) ==
    /\ name \in DOMAIN tables
    /\ cmd' = Command("Select", name, <<>>, EmptyMap, EmptyMap, TRUE)
    /\ UNCHANGED <<mu, conn, replaced>>
    /\ response' = Response(TRUE, RowsData(TableSelect(tables[name], NilCondition)), NoErr)
    /\ UNCHANGED <<tables, fs, faults>>

TableUpdateNil(name, values) ==
    /\ name \in DOMAIN tables
    /\ cmd' = Command("Update", name, <<>>, values, EmptyMap, TRUE)
    /\ UNCHANGED <<mu, conn, replaced>>
    /\ LET r == TableUpdate(tables[name], NilCondition, values) IN
       /\ tables' = StoreTable(tables, name, r.table)
       /\ response' = Response(r.err = NoErr, NoData, r.err)
    /\ UNCHANGED <<fs, faults>>

TableDeleteNil(name) ==
    /\ name \in DOMAIN tables
    /\ cmd' = Command("Delete", name, <<>>, EmptyMap, EmptyMap, TRUE)
    /\ UNCHANGED <<mu, conn, replaced>>
    /\ LET r == TableDelete(tables[name], NilCondition) IN
       /\ tables' = StoreTable(tables, name, r.table)
       /\ response' = Response(r.err = NoErr,
                               IF r.err = NoErr THEN CountData(r.count) ELSE NoData,
                               r.err)
    /\ UNCHANGED <<fs, faults>>

(***************************************************************************)
(* Inputs.                                                                 *)
(***************************************************************************)
TableNames == {"users"}
Keys == {"id", "name"}

One == Float64(2)
Two == Float64(4)
OneAndHalf == Float64(3)
Alice == String(1)
Bob == String(2)

\* all maps that give some of the keys of V a value of V[k]
MapsBy(V) == UNION {{m \in [S -> UNION {V[k] : k \in S}] : \A k \in S : m[k] \in V[k]}
                    : S \in SUBSET DOMAIN V}

Col(name, type) == [Name |-> name, Type |-> type]
Schemas ==
    { <<Col("id", "int"), Col("name", "string")>>,
      <<Col("id", "int")>>,
      <<Col("id", "int"), Col("id", "string")>>,
      <<Col("id", "float")>> }

InsertValues == MapsBy([id |-> {One, Two, OneAndHalf, Alice}, name |-> {Alice, Bob, One}])
UpdateValues == MapsBy([id |-> {Two, Alice}, name |-> {Bob}])
Conditions == MapsBy([id |-> {One}, name |-> {Alice}])

(***************************************************************************)
(* Spec: the server's commands, served one after another, every file       *)
(* operation succeeding.                                                   *)
(***************************************************************************)
Conns == 1..MaxConns
MutexNames == {"db", "users", "items", "orders"}

\* what a method has returned: its error, the rows of a Select, the count of a Delete
Ret(err, rows, count) == [err |-> err, rows |-> rows, count |-> count]
NoRet == Ret(NoErr, <<>>, 0)

\* a goroutine and the locals of the method it runs
\* gen: which catalog the *Table that GetTable returned was taken from (the
\* number of LoadFromDisk calls that had replaced db.tables by then);
\* fd: the path at which the file that os.Create returned is found now
Goroutine(pc, call) ==
    [pc |-> pc, call |-> call, i |-> 0, acc |-> <<>>, updated |-> FALSE, ret |-> NoRet,
     gen |-> 0, fd |-> ""]

Init ==
    /\ tables = EmptyMap
    /\ fs = [p \in Paths |-> FileAbsent]
    /\ cmd = NoCommand
    /\ response = Response(TRUE, NoData, NoErr)
    /\ faults = 0
    /\ mu = [m \in MutexNames |-> Free]
    /\ replaced = <<>>
    /\ conn = [c \in Conns |-> Goroutine("idle", NoCommand)]

CreateTableStep ==
    \E name \in TableNames, columns \in Schemas : handleCreateTable(name, columns, "ok")

InsertStep ==
    \E name \in TableNames, values \in InsertValues :
        /\ name \in DOMAIN tables => Len(tables[name].Rows) < MaxRows
        /\ handleInsert(name, values, "ok")

SelectStep ==
    \E name \in TableNames, conds \in Conditions : handleSelect(name, conds)

UpdateStep ==
    \E name \in TableNames, conds \in Conditions, values \in UpdateValues :
        handleUpdate(name, conds, values, "ok")

DeleteStep ==
    \E name \in TableNames, conds \in Conditions : handleDelete(name, conds, "ok")

GetTableInfoStep == \E name \in TableNames : handleGetTableInfo(name)

\* Command.UnmarshalJSON has no case for LoadFromDisk: cmd.Payload is nil
LoadStep == handleLoadFromDisk(Nil)

SaveStep == handleSaveToDisk("ok", "ok", "ok", "ok")

Next ==
    \/ CreateTableStep
    \/ InsertStep
    \/ SelectStep
    \/ UpdateStep
    \/ DeleteStep
    \/ GetTableInfoStep
    \/ LoadStep
    \/ SaveStep

Spec == Init /\ [][Next]_vars

(***************************************************************************)
(* LibrarySpec: package db called directly, the Table methods being given  *)
(* a nil condition function.                                               *)
(***************************************************************************)
SelectNilStep == \E name \in TableNames : TableSelectNil(name)
UpdateNilStep == \E name \in TableNames, values \in UpdateValues : TableUpdateNil(name, values)
DeleteNilStep == \E name \in TableNames : TableDeleteNil(name)

LibraryNext ==
    \/ CreateTableStep
    \/ InsertStep
    \/ SelectNilStep
    \/ UpdateNilStep
    \/ DeleteNilStep

LibrarySpec == Init /\ [][LibraryNext]_vars

(***************************************************************************)
(* Vocabulary of the properties.                                           *)
(***************************************************************************)
ColumnNames(t) == {t.Columns[i].Name : i \in 1..Len(t.Columns)}

\* the two kinds of the data model: Integer (an integral number) and Text
IsInteger(val) == val.type = "int" \/ (val.type = "float64" /\ val.v % 2 = 0)
IsText(val) == val.type = "string"
KindMatches(col, val) ==
    \/ col.Type = TypeInt /\ IsInteger(val)
    \/ col.Type = TypeString /\ IsText(val)

RowOK(t, row) ==
    /\ DOMAIN row = ColumnNames(t)
    /\ \A i \in 1..Len(t.Columns) : KindMatches(t.Columns[i], row[t.Columns[i].Name])

\* the table a command names
Named(c) == c.TableName \in DOMAIN tables
Target(c) == tables[c.TableName]

\* columns of t that the input leaves out, or gives a value of the wrong kind
Absent(t, values) == {i \in 1..Len(t.Columns) : t.Columns[i].Name \notin DOMAIN values}
Mismatched(t, values) ==
    {i \in 1..Len(t.Columns) :
        /\ t.Columns[i].Name \in DOMAIN values
        /\ ~KindMatches(t.Columns[i], values[t.Columns[i].Name])}

\* indices of the rows that a condition map matches
Matching(rows, conds) == {i \in 1..Len(rows) : condition(conds, rows[i])}

(***************************************************************************)
(* C1 (row invariant): every stored row, and every row a Select returns,   *)
(* has exactly the table's column names as keys, each value of the kind    *)
(* its column declares.                                                    *)
(***************************************************************************)
C1_RowInvariant ==
    /\ \A n \in DOMAIN tables :
          \A i \in 1..Len(tables[n].Rows) : RowOK(tables[n], tables[n].Rows[i])
    /\ (cmd.Type = "Select" /\ response.Success /\ Named(cmd)) =>
          \A i \in 1..Len(response.Data.rows) : RowOK(Target(cmd), response.Data.rows[i])

(***************************************************************************)
(* C2 (Update validates before it mutates): an Update whose values hold an *)
(* invalid field (a key that is no column, or a value of the wrong kind)   *)
(* returns an error and changes no row.                                    *)
(***************************************************************************)
InvalidField(t, values, k) ==
    \/ k \notin ColumnNames(t)
    \/ \E i \in 1..Len(t.Columns) :
          t.Columns[i].Name = k /\ ~KindMatches(t.Columns[i], values[k])

C2_UpdateValidatesBeforeMutating ==
    [][ ( /\ cmd'.Type = "Update"
          /\ Named(cmd')
          /\ \E k \in DOMAIN cmd'.Values : InvalidField(Target(cmd'), cmd'.Values, k) )
        => (~response'.Success /\ tables' = tables) ]_vars

(***************************************************************************)
(* C3 (Update rejects unknown columns): an Update whose values name a key  *)
(* that is no column of the table fails with UnknownColumn, whether or not *)
(* a row matches, and no row holds that key afterwards.                    *)
(***************************************************************************)
C3_UpdateRejectsUnknownColumns ==
    \A k \in DOMAIN cmd.Values :
        (cmd.Type = "Update" /\ Named(cmd) /\ k \notin ColumnNames(Target(cmd)))
        => /\ ~response.Success
           /\ response.Error.kind = "UnknownColumn"
           /\ \A i \in 1..Len(Target(cmd).Rows) : k \notin DOMAIN Target(cmd).Rows[i]

(***************************************************************************)
(* C4 (Insert error conditions).  As claimed: Insert fails with            *)
(* MissingColumn iff some declared column is absent from the input, and    *)
(* with TypeMismatch iff some provided value is of the wrong kind.         *)
(***************************************************************************)
C4_InsertErrorsIff ==
    (cmd.Type = "Insert" /\ Named(cmd)) =>
        /\ response.Error.kind = "MissingColumn" <=> Absent(Target(cmd), cmd.Values) # {}
        /\ response.Error.kind = "TypeMismatch" <=> Mismatched(Target(cmd), cmd.Values) # {}

(***************************************************************************)
(* C4 as amended: Insert fails iff some declared column is absent from the *)
(* input or is given a value of the wrong kind, and the one error it       *)
(* returns is that of the first such column in declaration order:          *)
(* MissingColumn if that column is absent, TypeMismatch otherwise.         *)
(***************************************************************************)
C4_InsertFirstError ==
    (cmd.Type = "Insert" /\ Named(cmd)) =>
        LET t == Target(cmd)
            bad == Absent(t, cmd.Values) \cup Mismatched(t, cmd.Values)
        IN  /\ response.Success <=> bad = {}
            /\ bad # {} =>
                 LET first == CHOOSE i \in bad : \A j \in bad : i <= j IN
                 /\ response.Error.col = t.Columns[first].Name
                 /\ response.Error.kind =
                       IF first \in Absent(t, cmd.Values)
                       THEN "MissingColumn" ELSE "TypeMismatch"

\* an Insert that leaves out one column and mistypes an earlier one
C4_Witness ==
    /\ cmd.Type = "Insert" /\ Named(cmd)
    /\ Absent(Target(cmd), cmd.Values) # {}
    /\ Mismatched(Target(cmd), cmd.Values) # {}
    /\ response.Error.kind = "TypeMismatch"

(***************************************************************************)
(* C5 (Insert success effect): given a value of the right kind for every   *)
(* declared column, Insert succeeds and appends exactly one row, built     *)
(* from the declared columns only, to the end of the row sequence.         *)
(***************************************************************************)
C5_InsertAppendsDeclaredColumns ==
    [][ ( /\ cmd'.Type = "Insert"
          /\ Named(cmd')
          /\ Absent(Target(cmd'), cmd'.Values) = {}
          /\ Mismatched(Target(cmd'), cmd'.Values) = {} )
        => /\ response'.Success
           /\ DOMAIN tables' = DOMAIN tables
           /\ tables'[cmd'.TableName].Columns = Target(cmd').Columns
           /\ tables'[cmd'.TableName].Rows =
                 Target(cmd').Rows \o
                    << [k \in ColumnNames(Target(cmd')) |-> cmd'.Values[k]] >> ]_vars

\* a second row inserted from an input with a key that is no column
C5_Witness ==
    /\ cmd.Type = "Insert" /\ Named(cmd) /\ response.Success
    /\ Len(Target(cmd).Rows) >= 2
    /\ DOMAIN cmd.Values \ ColumnNames(Target(cmd)) # {}

(***************************************************************************)
(* C6 (an empty or absent condition matches every row): on a table of      *)
(* n >= 1 rows, Select with it returns all n rows, Update with it changes  *)
(* all n rows, Delete with it removes all n rows and returns n.            *)
(***************************************************************************)
C6_EmptyConditionMatchesAll ==
    [][ (cmd'.Conditions = EmptyMap /\ Named(cmd') /\ Len(Target(cmd').Rows) >= 1)
        => LET rows == Target(cmd').Rows
               after == tables'[cmd'.TableName].Rows
           IN /\ cmd'.Type = "Select" => response'.Data.rows = rows
              /\ (cmd'.Type = "Update" /\ response'.Success) =>
                    /\ Len(after) = Len(rows)
                    /\ \A i \in 1..Len(rows) : \A k \in DOMAIN cmd'.Values :
                          after[i][k] = cmd'.Values[k]
              /\ cmd'.Type = "Delete" =>
                    /\ response'.Success
                    /\ response'.Data.count = Len(rows)
                    /\ after = <<>> ]_vars

(***************************************************************************)
(* C7 (nothing matched).  As claimed: a Delete or Update whose condition   *)
(* matches no row returns NotFound and leaves the rows as they were.       *)
(***************************************************************************)
C7_NoMatchIsNotFound ==
    [][ ( /\ cmd'.Type \in {"Delete", "Update"}
          /\ Named(cmd')
          /\ Matching(Target(cmd').Rows, cmd'.Conditions) = {} )
        => (response'.Error.kind = "NotFound" /\ tables' = tables) ]_vars

(***************************************************************************)
(* C7 as amended: a Delete whose condition matches no row returns          *)
(* NotFound; an Update whose condition matches no row returns an error,    *)
(* which is NotFound unless a value given for a declared column is of the  *)
(* wrong kind (then it is TypeMismatch); both leave the rows as they       *)
(* were; and a Delete repeated with the same condition right after it      *)
(* succeeded returns NotFound.                                             *)
(***************************************************************************)
C7_NoMatchFailsUnchanged ==
    [][ /\ ( /\ cmd'.Type \in {"Delete", "Update"}
             /\ Named(cmd')
             /\ Matching(Target(cmd').Rows, cmd'.Conditions) = {} )
           => /\ ~response'.Success
              /\ tables' = tables
              /\ response'.Error.kind =
                    IF cmd'.Type = "Update" /\ Mismatched(Target(cmd'), cmd'.Values) # {}
                    THEN "TypeMismatch" ELSE "NotFound"
        /\ ( /\ cmd.Type = "Delete" /\ response.Success
             /\ cmd'.Type = "Delete"
             /\ cmd'.TableName = cmd.TableName
             /\ cmd'.Conditions = cmd.Conditions )
           => (response'.Error.kind = "NotFound" /\ tables' = tables) ]_vars

\* an Update with values to write that matched none of the rows present
C7_Witness ==
    /\ cmd.Type = "Update" /\ Named(cmd)
    /\ response.Error.kind = "NotFound"
    /\ Len(Target(cmd).Rows) >= 1
    /\ DOMAIN cmd.Values # {}

(***************************************************************************)
(* C8 (Delete removes exactly the matching rows): when k >= 1 rows match,  *)
(* Delete returns k, the row count drops by k, no remaining row matches,   *)
(* and the survivors are the rows that did not match, in their order.      *)
(***************************************************************************)
RECURSIVE Survivors(_, _)
Survivors(rows, conds) ==
    IF rows = <<>>
    THEN <<>>
    ELSE IF condition(conds, Head(rows))
         THEN Survivors(Tail(rows), conds)
         ELSE <<Head(rows)>> \o Survivors(Tail(rows), conds)

C8_DeleteRemovesMatching ==
    [][ ( /\ cmd'.Type = "Delete"
          /\ Named(cmd')
          /\ Matching(Target(cmd').Rows, cmd'.Conditions) # {} )
        => LET rows == Target(cmd').Rows
               k == Cardinality(Matching(rows, cmd'.Conditions))
               after == tables'[cmd'.TableName].Rows
           IN /\ response'.Success
              /\ response'.Data.kind = "count"
              /\ response'.Data.count = k
              /\ Len(after) = Len(rows) - k
              /\ Matching(after, cmd'.Conditions) = {}
              /\ after = Survivors(rows, cmd'.Conditions) ]_vars

\* one row deleted out of three: two survivors, whose order is observable
C8_Witness ==
    /\ cmd.Type = "Delete" /\ Named(cmd) /\ response.Success
    /\ response.Data.count = 1
    /\ Len(Target(cmd).Rows) = 2
    /\ Target(cmd).Rows[1] # Target(cmd).Rows[2]

(***************************************************************************)
(* C9 (Update is a partial update with a precise frame): when validation   *)
(* passes and a row matches, every matching row gets the columns named in  *)
(* values overwritten, keeps its other columns, every other row is         *)
(* unchanged, and the number and order of rows are unchanged.              *)
(***************************************************************************)
C9_UpdateFrame ==
    [][ ( /\ cmd'.Type = "Update"
          /\ Named(cmd')
          /\ Mismatched(Target(cmd'), cmd'.Values) = {}
          /\ Matching(Target(cmd').Rows, cmd'.Conditions) # {} )
        => LET rows == Target(cmd').Rows
               after == tables'[cmd'.TableName].Rows
               hit == Matching(rows, cmd'.Conditions)
           IN /\ response'.Success
              /\ Len(after) = Len(rows)
              /\ tables'[cmd'.TableName].Columns = Target(cmd').Columns
              /\ \A i \in 1..Len(rows) :
                    IF i \in hit
                    THEN /\ DOMAIN after[i] = DOMAIN rows[i] \cup DOMAIN cmd'.Values
                         /\ \A k \in DOMAIN cmd'.Values : after[i][k] = cmd'.Values[k]
                         /\ \A k \in DOMAIN rows[i] \ DOMAIN cmd'.Values :
                               after[i][k] = rows[i][k]
                    ELSE after[i] = rows[i] ]_vars

\* name set to Bob where id = 1: that row keeps its id, another row is untouched
C9_Witness ==
    /\ cmd.Type = "Update" /\ Named(cmd) /\ response.Success
    /\ cmd.Conditions = [id |-> One]
    /\ cmd.Values = [name |-> Bob]
    /\ \E i, j \in 1..Len(Target(cmd).Rows) :
          /\ Target(cmd).Rows[i] = [id |-> One, name |-> Bob]
          /\ Target(cmd).Rows[j] = [id |-> Two, name |-> Alice]

QueryConditions ==
    MapsBy([id |-> {One, Alice, Nil}, name |-> {Alice}, age |-> {One, Nil}])

QueryStep ==
    \E name \in TableNames, conds \in QueryConditions : handleSelect(name, conds)

QueryNext ==
    \/ CreateTableStep
    \/ InsertStep
    \/ QueryStep

QuerySpec == Init /\ [][QueryNext]_vars

(***************************************************************************)
(* C11 (Select returns the matching rows): a Select of an existing table   *)
(* succeeds and returns, in stored order, exactly the rows that have, at   *)
(* every key of the condition, a value equal to the condition's value; a   *)
(* condition naming a key that is no column of the table returns no row.   *)
(***************************************************************************)
\* the row has a value at every key of the condition, equal to the condition's
HasEqualValues(row, conds) == \A k \in DOMAIN conds : k \in DOMAIN row /\ row[k] = conds[k]

RECURSIVE RowsWith(_, _)
RowsWith(rows, conds) ==
    IF rows = <<>>
    THEN <<>>
    ELSE IF HasEqualValues(Head(rows), conds)
         THEN <<Head(rows)>> \o RowsWith(Tail(rows), conds)
         ELSE RowsWith(Tail(rows), conds)

C11_SelectReturnsMatching ==
    (cmd.Type = "Select" /\ ~cmd.direct /\ Named(cmd)) =>
        /\ response.Success
        /\ response.Data.kind = "rows"
        /\ response.Data.rows = RowsWith(Target(cmd).Rows, cmd.Conditions)
        /\ (DOMAIN cmd.Conditions \ ColumnNames(Target(cmd)) # {}) =>
              response.Data.rows = <<>>

(***************************************************************************)
(* AliasSpec: a caller of package db keeps the []map[string]interface{}    *)
(* that Table.Select returned and writes to its maps.  A map of the result *)
(* is an object: alias = 0 is a map that Select made, alias = i is the     *)
(* very map stored at t.Rows[i], whose writes are writes to the store.     *)
(***************************************************************************)
MapDelete(m, k) == [x \in DOMAIN m \ {k} |-> m[x]]

\* result = append(result, row): the stored map itself, not a copy of it
RowCopy_sameMap(Rows, i) == [alias |-> i, row |-> Rows[i]]

\* rowCopy := make(map[string]interface{}); for k, v := range row { rowCopy[k] = v }
RowCopy(Rows, i) == [alias |-> 0, row |-> [k \in DOMAIN Rows[i] |-> Rows[i][k]]]

RECURSIVE SelectMaps(_, _, _, _)
SelectMaps(Rows, i, cond, result) ==
    IF i > Len(Rows)
    THEN result
    ELSE IF cond.isNil \/ condition(cond.conds, Rows[i])
         THEN SelectMaps(Rows, i + 1, cond, Append(result, RowCopy(Rows, i)))
         ELSE SelectMaps(Rows, i + 1, cond, result)

MapsData(maps) == [kind |-> "maps", rows |-> maps, count |-> 0]

\* result := table.Select(condition), the caller keeping result
CallerSelect(name, conds) ==
    /\ name \in DOMAIN tables
    /\ cmd' = Command("Select", name, <<>>, EmptyMap, conds, TRUE)
    /\ UNCHANGED <<mu, conn, replaced>>
    /\ response' = Response(TRUE, MapsData(SelectMaps(tables[name].Rows, 1, Closure(conds), <<>>)),
                            NoErr)
    /\ UNCHANGED <<tables, fs, faults>>

\* result[j][k] = v, or delete(result[j], k), by the caller that holds result
CallerWrites(j, op, k, v) ==
    /\ cmd.direct
    /\ cmd.Type \in {"Select", "WriteRow"}
    /\ response.Data.kind = "maps"
    /\ j \in 1..Len(response.Data.rows)
    /\ LET held == response.Data.rows[j]
           row == IF op = "delete" THEN MapDelete(held.row, k) ELSE MapAssign(held.row, k, v)
       IN  /\ row # held.row
           /\ cmd' = [cmd EXCEPT !.Type = "WriteRow"]
           /\ UNCHANGED <<mu, conn, replaced>>
           /\ response' = [response EXCEPT !.Data.rows[j].row = row]
           /\ tables' = IF held.alias = 0
                        THEN tables
                        ELSE [tables EXCEPT ![cmd.TableName].Rows[held.alias] = row]
    /\ UNCHANGED <<fs, faults>>

AliasInsertStep ==
    \E name \in TableNames, values \in {[id |-> One], [id |-> Two, name |-> Alice]} :
        /\ name \in DOMAIN tables => Len(tables[name].Rows) < MaxRows
        /\ handleInsert(name, values, "ok")

CallerSelectStep == \E name \in TableNames, conds \in Conditions : CallerSelect(name, conds)

CallerWritesStep ==
    \E j \in 1..MaxRows :
        \/ CallerWrites(j, "set", "id", Two)
        \/ CallerWrites(j, "set", "age", One)
        \/ CallerWrites(j, "delete", "id", Nil)

AliasNext ==
    \/ CreateTableStep
    \/ AliasInsertStep
    \/ SelectStep
    \/ CallerSelectStep
    \/ CallerWritesStep

AliasSpec == Init /\ [][AliasNext]_vars

(***************************************************************************)
(* C12 (Select is read-only and its result is no alias of the store): a    *)
(* Select leaves every table unchanged, and so does every later write of   *)
(* the caller to a row of the result (a key changed, added or removed).    *)
(***************************************************************************)
C12_SelectResultNotAliased ==
    [][ cmd'.Type \in {"Select", "WriteRow"} => tables' = tables ]_vars

\* the caller has changed a row it was given, which now differs from every stored row
C12_Witness ==
    /\ cmd.Type = "WriteRow"
    /\ Len(response.Data.rows) = Len(Target(cmd).Rows)
    /\ Len(response.Data.rows) >= 2
    /\ \E j \in 1..Len(response.Data.rows) :
          /\ "age" \in DOMAIN response.Data.rows[j].row
          /\ "id" \notin DOMAIN response.Data.rows[j].row
    /\ \A i \in 1..Len(Target(cmd).Rows) : RowOK(Target(cmd), Target(cmd).Rows[i])

(***************************************************************************)
(* CatalogSpec: a catalog of up to two tables, created and filled by       *)
(* commands.                                                               *)
(***************************************************************************)
CatalogNames == {"users", "items"}
CatalogValues == {[id |-> One], [id |-> Two, name |-> Alice]}

CatalogCreateStep ==
    \E name \in CatalogNames, columns \in Schemas : handleCreateTable(name, columns, "ok")

CatalogInsertStep ==
    \E name \in CatalogNames, values \in CatalogValues :
        /\ name \in DOMAIN tables => Len(tables[name].Rows) < MaxRows
        /\ handleInsert(name, values, "ok")

CatalogNext ==
    \/ CatalogCreateStep
    \/ CatalogInsertStep

CatalogSpec == Init /\ [][CatalogNext]_vars

\* the columns of a CreateTable payload are the columns of the table, in order
SameColumns(payload, Columns) ==
    /\ Len(Columns) = Len(payload)
    /\ \A i \in 1..Len(payload) :
          /\ Columns[i].Name = payload[i].Name
          /\ Columns[i].Type = TypeInt <=> payload[i].Type = "int"
          /\ Columns[i].Type = TypeString <=> payload[i].Type = "string"

ValidTypes(payload) == \A i \in 1..Len(payload) : payload[i].Type \in {"int", "string"}

(***************************************************************************)
(* C13 (CreateTable): a CreateTable naming a table of the catalog fails    *)
(* with DuplicateTable and leaves that table and every other table         *)
(* unchanged; with a fresh name it succeeds and adds a table with the      *)
(* given columns and no row, every other table unchanged.  (The column     *)
(* types of the command are "int" or "string".)                            *)
(***************************************************************************)
C13_CreateTable ==
    [][ (cmd'.Type = "CreateTable" /\ ValidTypes(cmd'.Columns)) =>
          IF cmd'.TableName \in DOMAIN tables
          THEN /\ ~response'.Success
               /\ response'.Error.kind = "DuplicateTable"
               /\ tables' = tables
          ELSE /\ response'.Success
               /\ DOMAIN tables' = DOMAIN tables \cup {cmd'.TableName}
               /\ SameColumns(cmd'.Columns, tables'[cmd'.TableName].Columns)
               /\ tables'[cmd'.TableName].Rows = <<>>
               /\ \A n \in DOMAIN tables : tables'[n] = tables[n] ]_vars

\* a CreateTable refused for a table that holds rows, another table existing
C13_Witness ==
    /\ cmd.Type = "CreateTable"
    /\ ~response.Success
    /\ response.Error.kind = "DuplicateTable"
    /\ Len(Target(cmd).Rows) >= 2
    /\ \E n \in DOMAIN tables : n # cmd.TableName /\ Len(tables[n].Rows) >= 1

(***************************************************************************)
(* C14 (column names are unique): no table of the catalog has two columns  *)
(* of the same name, a CreateTable whose column list repeats a name        *)
(* having failed and created no table.                                     *)
(***************************************************************************)
C14_UniqueColumnNames ==
    \A n \in DOMAIN tables :
        \A i, j \in 1..Len(tables[n].Columns) :
            tables[n].Columns[i].Name = tables[n].Columns[j].Name => i = j

(***************************************************************************)
(* FaultSpec: the commands served one after another, file operations       *)
(* failing: the write of a snapshot (os.Create or Encode), and the renames *)
(* and the removal of handleSaveToDisk.  At most MaxFaults operations fail *)
(* in a behaviour.                                                         *)
(***************************************************************************)
FileOutcomes == {"ok", "error"}

FaultyCreateStep ==
    \E name \in TableNames, columns \in Schemas, outcome \in SaveOutcomes :
        handleCreateTable(name, columns, outcome)

FaultyInsertStep ==
    \E name \in TableNames, values \in CatalogValues, outcome \in SaveOutcomes :
        /\ name \in DOMAIN tables => Len(tables[name].Rows) < MaxRows
        /\ handleInsert(name, values, outcome)

FaultySaveStep ==
    \E backup \in FileOutcomes, write \in SaveOutcomes,
       restore \in FileOutcomes, remove \in FileOutcomes :
        handleSaveToDisk(backup, write, restore, remove)

FaultNext ==
    \/ FaultyCreateStep
    \/ FaultyInsertStep
    \/ LoadStep
    \/ FaultySaveStep

FaultSpec == Init /\ [][FaultNext]_vars

(***************************************************************************)
(* C15 (a failed Load changes nothing): a Load whose file is missing or    *)
(* does not decode returns an error and leaves the catalog as it was:      *)
(* the same tables, columns and rows.                                      *)
(***************************************************************************)
C15_FailedLoadKeepsCatalog ==
    [][ (cmd'.Type = "LoadFromDisk" /\ fs[DEFAULT_DB_FILE].state # "json") =>
          /\ ~response'.Success
          /\ response'.Error # NoErr
          /\ tables' = tables ]_vars

\* a Load that failed to decode a truncated file, the catalog holding a row
C15_Witness ==
    /\ cmd.Type = "LoadFromDisk"
    /\ ~response.Success
    /\ response.Error.kind = "DecodeError"
    /\ \E n \in DOMAIN tables : Len(tables[n].Rows) >= 1

(***************************************************************************)
(* C17 (snapshot round trip): a Load that directly follows a successful    *)
(* Save (no command between them, no file operation failing) succeeds and  *)
(* yields the catalog that was saved: the same table names and, for every  *)
(* table, the same columns in the same order and the same rows in the same *)
(* order.                                                                  *)
(***************************************************************************)
C17_SnapshotRoundTrip ==
    [][ ( /\ cmd.Type = "SaveToDisk"
          /\ response.Success
          /\ cmd'.Type = "LoadFromDisk" )
        => /\ response'.Success
           /\ DOMAIN tables' = DOMAIN tables
           /\ \A n \in DOMAIN tables :
                 /\ tables'[n].Name = tables[n].Name
                 /\ tables'[n].Columns = tables[n].Columns
                 /\ tables'[n].Rows = tables[n].Rows ]_vars

\* a catalog loaded from the snapshot just saved: two columns, three rows, not all alike
C17_Witness ==
    /\ cmd.Type = "LoadFromDisk"
    /\ response.Success
    /\ \E n \in DOMAIN tables :
          /\ Len(tables[n].Columns) = 2
          /\ Len(tables[n].Rows) = 3
          /\ tables[n].Rows[1] # tables[n].Rows[2]
          /\ tables[n].Rows[2].id.type = "float64"
          /\ tables[n].Rows[2].name.type = "string"
    /\ fs[DEFAULT_DB_FILE] = FileJSON(Encode(tables))

(***************************************************************************)
(* C18 (Save restores the backup when the write fails): a Save that finds  *)
(* a snapshot file at the path and whose write fails answers with the      *)
(* write error (Success = false); when the two renames succeed (to the     *)
(* backup, and back), the path holds again the file that was there before  *)
(* the Save, and the catalog is unchanged.                                 *)
(***************************************************************************)
C18_SaveRestoresBackup ==
    [][ \A backup \in FileOutcomes, write \in SaveOutcomes,
           restore \in FileOutcomes, remove \in FileOutcomes :
          ( /\ handleSaveToDisk(backup, write, restore, remove)
            /\ fs[DEFAULT_DB_FILE].state # "absent"
            /\ write # "ok" )
          => /\ ~response'.Success
             /\ response'.Error = Err("IOError", "")
             /\ tables' = tables
             /\ (backup = "ok" /\ restore = "ok") =>
                   /\ fs'[DEFAULT_DB_FILE] = fs[DEFAULT_DB_FILE]
                   /\ fs'[backupFile].state = "absent" ]_vars

\* a failed Save after which the path holds a complete snapshot of a table with rows
C18_Witness ==
    /\ cmd.Type = "SaveToDisk"
    /\ ~response.Success
    /\ faults = 1
    /\ fs[DEFAULT_DB_FILE].state = "json"
    /\ fs[backupFile].state = "absent"
    /\ \E n \in DOMAIN tables : Len(tables[n].Rows) >= 2
    /\ fs[DEFAULT_DB_FILE].data = Encode(tables)

(***************************************************************************)
(* C19 (Save succeeds when its write succeeds): a Save whose write         *)
(* succeeds answers Success = true, whether or not the rename to the       *)
(* backup or the removal of the backup failed; the path then holds the     *)
(* snapshot of the catalog, and no backup file remains when the removal    *)
(* succeeded.                                                              *)
(***************************************************************************)
C19_SaveSucceedsWithWrite ==
    [][ \A backup \in FileOutcomes, write \in SaveOutcomes,
           restore \in FileOutcomes, remove \in FileOutcomes :
          ( /\ handleSaveToDisk(backup, write, restore, remove)
            /\ write = "ok" )
          => /\ response'.Success
             /\ response'.Error = NoErr
             /\ tables' = tables
             /\ fs'[DEFAULT_DB_FILE] = FileJSON(Encode(tables))
             /\ remove = "ok" => fs'[backupFile].state = "absent" ]_vars

\* a Save that succeeded although its backup could not be removed
C19_Witness ==
    /\ cmd.Type = "SaveToDisk"
    /\ response.Success
    /\ faults = 1
    /\ fs[backupFile].state = "json"
    /\ fs[DEFAULT_DB_FILE] = FileJSON(Encode(tables))
    /\ \E n \in DOMAIN tables : Len(tables[n].Rows) >= 1

(***************************************************************************)
(* TableLockSpec: MaxConns goroutines, each calling one method of the same *)
(* Table.  A method is run statement by statement: it takes t.mu, runs its *)
(* loops one row at a time, and releases t.mu when it returns (defer).     *)
(* The table is users(id int, name string) after two Inserts.              *)
(***************************************************************************)
UsersColumns == <<[Name |-> "id", Type |-> TypeInt], [Name |-> "name", Type |-> TypeString]>>
UsersRows == <<[id |-> One, name |-> Alice], [id |-> Two, name |-> Bob]>>

TableCalls ==
    { Command("Insert", "users", <<>>, [id |-> One, name |-> Bob], EmptyMap, TRUE),
      Command("Update", "users", <<>>, [name |-> Bob], [id |-> One], TRUE),
      Command("Delete", "users", <<>>, EmptyMap, [name |-> Bob], TRUE),
      Command("Select", "users", <<>>, EmptyMap, [id |-> One], TRUE) }

TableLockInit ==
    /\ tables = [n \in {"users"} |-> Table("users", UsersColumns, UsersRows)]
    /\ fs = [p \in Paths |-> FileJSON(Encode(tables))]
    /\ cmd = NoCommand
    /\ response = Response(TRUE, NoData, NoErr)
    /\ faults = 0
    /\ mu = [m \in MutexNames |-> Free]
    /\ replaced = <<>>
    /\ conn \in [Conns -> {Goroutine("call", call) : call \in TableCalls}]

\* t.mu.Lock() of Insert, Update and Delete; t.mu.RLock() of Select
TableMethodLock(c) ==
    /\ conn[c].pc = "call"
    /\ conn[c].call.Type \in {"Insert", "Select", "Update", "Delete"}
    /\ LET t == conn[c].call.TableName IN
       IF conn[c].call.Type = "Select"
       THEN /\ CanRLock(mu[t])
            /\ mu' = [mu EXCEPT ![t] = RLock(@, c)]
       ELSE /\ CanLock(mu[t])
            /\ mu' = [mu EXCEPT ![t] = Lock(@, c)]
    /\ conn' = [conn EXCEPT ![c].pc = "body", ![c].i = 1]
    /\ UNCHANGED <<tables, fs, cmd, response, faults, replaced>>

\* Insert: the loop over t.Columns, then t.Rows = append(t.Rows, row)
InsertBody(c) ==
    /\ conn[c].pc = "body"
    /\ conn[c].call.Type = "Insert"
    /\ LET t == conn[c].call.TableName
           r == TableInsert(tables[t], conn[c].call.Values)
       IN  /\ tables' = StoreTable(tables, t, r.table)
           /\ conn' = [conn EXCEPT ![c].pc = "return", ![c].ret = Ret(r.err, <<>>, 0)]
    /\ UNCHANGED <<fs, cmd, response, faults, replaced, mu>>

\* Select: one turn of for _, row := range t.Rows, or return result
SelectRow(c) ==
    /\ conn[c].pc = "body"
    /\ conn[c].call.Type = "Select"
    /\ LET Rows == tables[conn[c].call.TableName].Rows
           i == conn[c].i
       IN  IF i > Len(Rows)
           THEN conn' = [conn EXCEPT ![c].pc = "return",
                                     ![c].ret = Ret(NoErr, conn[c].acc, 0)]
           ELSE conn' = [conn EXCEPT ![c].i = i + 1,
                                     ![c].acc = IF condition(conn[c].call.Conditions, Rows[i])
                                                THEN Append(@, Rows[i])
                                                ELSE @]
    /\ UNCHANGED <<tables, fs, cmd, response, faults, replaced, mu>>

\* Update: the validation loop over t.Columns
UpdateCheck(c) ==
    /\ conn[c].pc = "body"
    /\ conn[c].call.Type = "Update"
    /\ LET e == UpdateValidate(tables[conn[c].call.TableName].Columns, 1, conn[c].call.Values)
       IN  IF e # NoErr
           THEN conn' = [conn EXCEPT ![c].pc = "return", ![c].ret = Ret(e, <<>>, 0)]
           ELSE conn' = [conn EXCEPT ![c].pc = "rows"]
    /\ UNCHANGED <<tables, fs, cmd, response, faults, replaced, mu>>

\* Update: one turn of for i, row := range t.Rows, or the test of updated
UpdateOneRow(c) ==
    /\ conn[c].pc = "rows"
    /\ conn[c].call.Type = "Update"
    /\ LET t == conn[c].call.TableName
           Rows == tables[t].Rows
           i == conn[c].i
       IN  IF i > Len(Rows)
           THEN /\ conn' = [conn EXCEPT
                              ![c].pc = "return",
                              ![c].ret = Ret(IF conn[c].updated THEN NoErr
                                             ELSE Err("NotFound", ""), <<>>, 0)]
                /\ UNCHANGED tables
           ELSE IF condition(conn[c].call.Conditions, Rows[i])
                THEN /\ tables' = [tables EXCEPT ![t].Rows[i] =
                                     UpdateRow(@, conn[c].call.Values,
                                               DOMAIN conn[c].call.Values)]
                     /\ conn' = [conn EXCEPT ![c].i = i + 1, ![c].updated = TRUE]
                ELSE /\ conn' = [conn EXCEPT ![c].i = i + 1]
                     /\ UNCHANGED tables
    /\ UNCHANGED <<fs, cmd, response, faults, replaced, mu>>

\* Delete: one turn of for _, row := range t.Rows, or the test of deletedCount
DeleteOneRow(c) ==
    /\ conn[c].pc = "body"
    /\ conn[c].call.Type = "Delete"
    /\ LET Rows == tables[conn[c].call.TableName].Rows
           i == conn[c].i
           newRows == conn[c].acc
       IN  IF i > Len(Rows)
           THEN IF Len(Rows) - Len(newRows) = 0
                THEN conn' = [conn EXCEPT ![c].pc = "return",
                                          ![c].ret = Ret(Err("NotFound", ""), <<>>, 0)]
                ELSE conn' = [conn EXCEPT ![c].pc = "assign"]
           ELSE conn' = [conn EXCEPT ![c].i = i + 1,
                                     ![c].acc = IF ~condition(conn[c].call.Conditions, Rows[i])
                                                THEN Append(@, Rows[i])
                                                ELSE @]
    /\ UNCHANGED <<tables, fs, cmd, response, faults, replaced, mu>>

\* Delete: t.Rows = newRows
DeleteAssign(c) ==
    /\ conn[c].pc = "assign"
    /\ conn[c].call.Type = "Delete"
    /\ LET t == conn[c].call.TableName IN
       /\ conn' = [conn EXCEPT
                     ![c].pc = "return",
                     ![c].ret = Ret(NoErr, <<>>, Len(tables[t].Rows) - Len(conn[c].acc))]
       /\ tables' = [tables EXCEPT ![t].Rows = conn[c].acc]
    /\ UNCHANGED <<fs, cmd, response, faults, replaced, mu>>

\* the deferred t.mu.Unlock() or t.mu.RUnlock()
TableMethodUnlock(c) ==
    /\ conn[c].pc = "return"
    /\ conn[c].call.Type \in {"Insert", "Select", "Update", "Delete"}
    /\ LET t == conn[c].call.TableName IN
       mu' = [mu EXCEPT ![t] = IF conn[c].call.Type = "Select"
                               THEN RUnlock(@, c) ELSE Unlock(@, c)]
    /\ conn' = [conn EXCEPT ![c].pc = "done"]
    /\ UNCHANGED <<tables, fs, cmd, response, faults, replaced>>

TableLockNext ==
    \E c \in Conns :
        \/ TableMethodLock(c)
        \/ InsertBody(c)
        \/ SelectRow(c)
        \/ UpdateCheck(c)
        \/ UpdateOneRow(c)
        \/ DeleteOneRow(c)
        \/ DeleteAssign(c)
        \/ TableMethodUnlock(c)

TableLockSpec == TableLockInit /\ [][TableLockNext]_vars

(***************************************************************************)
(* C20 (a Table's lock linearizes its operations): while a goroutine is    *)
(* inside Insert, Update or Delete no other goroutine is inside a method   *)
(* of the table, Select included; and once all calls have returned, the    *)
(* rows of the table and the result of every call are those of the calls   *)
(* made one after another in some order.                                   *)
(***************************************************************************)
\* the goroutine is between the lock and the unlock of a Table method
InTable(c) == conn[c].pc \in {"body", "rows", "assign", "return"}
Mutating(c) == InTable(c) /\ conn[c].call.Type \in {"Insert", "Update", "Delete"}

\* the rows and the result of a call made alone on a table holding rows
Alone(rows, call) ==
    LET t == Table("users", UsersColumns, rows) IN
    CASE call.Type = "Insert" ->
            LET r == TableInsert(t, call.Values)
            IN  [rows |-> r.table.Rows, ret |-> Ret(r.err, <<>>, 0)]
      [] call.Type = "Update" ->
            LET r == TableUpdate(t, Closure(call.Conditions), call.Values)
            IN  [rows |-> r.table.Rows, ret |-> Ret(r.err, <<>>, 0)]
      [] call.Type = "Delete" ->
            LET r == TableDelete(t, Closure(call.Conditions))
            IN  [rows |-> r.table.Rows, ret |-> Ret(r.err, <<>>, r.count)]
      [] OTHER ->
            [rows |-> rows, ret |-> Ret(NoErr, TableSelect(t, Closure(call.Conditions)), 0)]

\* the calls of order[k], order[k+1], ... made one after another from rows return
\* what the goroutines got and leave the rows that the table holds
RECURSIVE InOrder(_, _, _)
InOrder(order, k, rows) ==
    IF k > Len(order)
    THEN rows = tables["users"].Rows
    ELSE LET a == Alone(rows, conn[order[k]].call) IN
         /\ a.ret = conn[order[k]].ret
         /\ InOrder(order, k + 1, a.rows)

Orders == {o \in [1..MaxConns -> Conns] : \A i, j \in 1..MaxConns : o[i] = o[j] => i = j}

AllDone == \A c \in Conns : conn[c].pc = "done"

C20_TableLockLinearizes ==
    /\ \A c, d \in Conns : (c # d /\ Mutating(c)) => ~InTable(d)
    /\ AllDone => \E o \in Orders : InOrder(o, 1, UsersRows)

\* an Insert, then a Select that saw its row, then a Delete that removed it
C20_Witness ==
    /\ AllDone
    /\ \E c, d, e \in Conns :
          /\ conn[c].call.Type = "Insert" /\ conn[c].ret.err = NoErr
          /\ conn[d].call.Type = "Select" /\ Len(conn[d].ret.rows) = 2
          /\ conn[e].call.Type = "Delete" /\ conn[e].ret.count = 2
    /\ Len(tables["users"].Rows) = 1

(***************************************************************************)
(* CatalogLockSpec: MaxConns goroutines, each calling one method of the    *)
(* Database, run statement by statement under db.mu.  The catalog holds    *)
(* users (two rows), items and orders; the snapshot file is older: users   *)
(* with its first row, and items (the saves after the second Insert and    *)
(* after CreateTable(orders) failed).                                      *)
(***************************************************************************)
ItemsColumns == <<[Name |-> "id", Type |-> TypeInt]>>

PriorCatalog ==
    [n \in {"users", "items", "orders"} |->
        CASE n = "users" -> Table("users", UsersColumns, UsersRows)
          [] n = "items" -> Table("items", ItemsColumns, <<>>)
          [] OTHER -> Table("orders", ItemsColumns, <<>>)]

SavedCatalog ==
    [n \in {"users", "items"} |->
        IF n = "users"
        THEN Table("users", UsersColumns, SubSeq(UsersRows, 1, 1))
        ELSE Table("items", ItemsColumns, <<>>)]

CatalogCalls ==
    { Command("LoadFromDisk", "", <<>>, EmptyMap, EmptyMap, TRUE),
      Command("GetTable", "users", <<>>, EmptyMap, EmptyMap, TRUE),
      Command("GetTable", "orders", <<>>, EmptyMap, EmptyMap, TRUE),
      Command("GetTableInfo", "orders", <<>>, EmptyMap, EmptyMap, TRUE),
      Command("CreateTable", "orders", UsersColumns, EmptyMap, EmptyMap, TRUE) }

CatalogLockInit ==
    /\ tables = PriorCatalog
    /\ fs = [p \in Paths |-> IF p = DEFAULT_DB_FILE
                             THEN FileJSON(Encode(SavedCatalog)) ELSE FileAbsent]
    /\ cmd = NoCommand
    /\ response = Response(TRUE, NoData, NoErr)
    /\ faults = 0
    /\ mu = [m \in MutexNames |-> Free]
    /\ replaced = <<>>
    /\ conn \in [Conns -> {Goroutine("call", call) : call \in CatalogCalls}]

\* db.mu.Lock() of CreateTable and LoadFromDisk; db.mu.RLock() of GetTable and GetTableInfo
DatabaseMethodLock(c) ==
    /\ conn[c].pc = "call"
    /\ IF conn[c].call.Type \in {"GetTable", "GetTableInfo"}
       THEN /\ CanRLock(mu["db"])
            /\ mu' = [mu EXCEPT !["db"] = RLock(@, c)]
       ELSE /\ CanLock(mu["db"])
            /\ mu' = [mu EXCEPT !["db"] = Lock(@, c)]
    /\ conn' = [conn EXCEPT ![c].pc = "body"]
    /\ UNCHANGED <<tables, fs, cmd, response, faults, replaced>>

\* a goroutine holds the *Table that GetTable has returned for this name
Referred(name) ==
    \E d \in Conns : /\ conn[d].pc \in {"table", "inTable"}
                     /\ conn[d].call.TableName = name
                     /\ conn[d].gen = Len(replaced)

\* LoadFromDisk: os.Open and Decode into the local variable data
LoadDecode(c) ==
    /\ conn[c].pc = "body"
    /\ conn[c].call.Type = "LoadFromDisk"
    /\ LET file == fs[DEFAULT_DB_FILE] IN
       CASE file.state = "absent" ->
               conn' = [conn EXCEPT ![c].pc = "return",
                                    ![c].ret = Ret(Err("IOError", ""), <<>>, 0)]
         [] file.state = "partial" ->
               conn' = [conn EXCEPT ![c].pc = "return",
                                    ![c].ret = Ret(Err("DecodeError", ""), <<>>, 0)]
         [] OTHER ->
               conn' = [conn EXCEPT ![c].pc = "make", ![c].acc = file.data]
    /\ UNCHANGED <<tables, fs, cmd, response, faults, replaced, mu>>

\* LoadFromDisk: db.tables = make(map[string]*Table)
LoadMake(c) ==
    /\ conn[c].pc = "make"
    /\ tables' = EmptyMap
    /\ conn' = [conn EXCEPT ![c].pc = "fill"]
    /\ replaced' = Append(replaced, [n \in {n \in DOMAIN tables : Referred(n)} |->
                                       [table |-> tables[n], mu |-> mu[n]]])
    /\ mu' = [m \in MutexNames |-> IF m = "db" THEN mu[m] ELSE Free]
    /\ UNCHANGED <<fs, cmd, response, faults>>

\* LoadFromDisk: one turn of for _, tableData := range data (in any order), or return nil
LoadFill(c) ==
    /\ conn[c].pc = "fill"
    /\ LET data == conn[c].acc IN
       IF DOMAIN data = {}
       THEN /\ conn' = [conn EXCEPT ![c].pc = "return", ![c].ret = Ret(NoErr, <<>>, 0)]
            /\ UNCHANGED tables
       ELSE \E k \in DOMAIN data :
               /\ tables' = MapAssign(tables, data[k].name, DecodeTable(data[k]))
               /\ conn' = [conn EXCEPT ![c].acc = MapDelete(data, k)]
    /\ UNCHANGED <<fs, cmd, response, faults, replaced, mu>>

\* GetTable: table, exists := db.tables[name]
GetTableBody(c) ==
    /\ conn[c].pc = "body"
    /\ conn[c].call.Type = "GetTable"
    /\ LET r == GetTable(tables, conn[c].call.TableName) IN
       conn' = [conn EXCEPT ![c].pc = "return",
                            ![c].ret = Ret(r.err, IF r.err = NoErr THEN <<r.table>> ELSE <<>>, 0)]
    /\ UNCHANGED <<tables, fs, cmd, response, faults, replaced, mu>>

\* GetTableInfo: the lookup and the copy of the columns
GetTableInfoBody(c) ==
    /\ conn[c].pc = "body"
    /\ conn[c].call.Type = "GetTableInfo"
    /\ LET r == GetTableInfo(tables, conn[c].call.TableName) IN
       conn' = [conn EXCEPT ![c].pc = "return", ![c].ret = Ret(r.err, r.columns, 0)]
    /\ UNCHANGED <<tables, fs, cmd, response, faults, replaced, mu>>

\* CreateTable: if _, exists := db.tables[name]; exists
\* a CreateTable that stores its table without looking the name up
CreateTableCheck_noLookup(c) ==
    /\ conn[c].pc = "body"
    /\ conn[c].call.Type = "CreateTable"
    /\ conn' = [conn EXCEPT ![c].pc = "store"]
    /\ UNCHANGED <<tables, fs, cmd, response, faults, replaced, mu>>

CreateTableCheck(c) ==
    /\ conn[c].pc = "body"
    /\ conn[c].call.Type = "CreateTable"
    /\ IF conn[c].call.TableName \in DOMAIN tables
       THEN conn' = [conn EXCEPT
                       ![c].pc = "return",
                       ![c].ret = Ret(Err("DuplicateTable", conn[c].call.TableName), <<>>, 0)]
       ELSE conn' = [conn EXCEPT ![c].pc = "store"]
    /\ UNCHANGED <<tables, fs, cmd, response, faults, replaced, mu>>

\* CreateTable: db.tables[name] = &Table{...}
CreateTableStore(c) ==
    /\ conn[c].pc = "store"
    /\ tables' = MapAssign(tables, conn[c].call.TableName,
                           Table(conn[c].call.TableName, conn[c].call.Columns, <<>>))
    /\ conn' = [conn EXCEPT ![c].pc = "return", ![c].ret = Ret(NoErr, <<>>, 0)]
    /\ UNCHANGED <<fs, cmd, response, faults, replaced, mu>>

\* the deferred db.mu.Unlock() or db.mu.RUnlock()
DatabaseMethodUnlock(c) ==
    /\ conn[c].pc = "return"
    /\ conn[c].call.Type \in {"LoadFromDisk", "GetTable", "GetTableInfo", "CreateTable"}
    /\ mu' = [mu EXCEPT !["db"] = IF conn[c].call.Type \in {"GetTable", "GetTableInfo"}
                                  THEN RUnlock(@, c) ELSE Unlock(@, c)]
    /\ conn' = [conn EXCEPT ![c].pc = IF conn[c].call.direct THEN "done" ELSE "returned"]
    /\ UNCHANGED <<tables, fs, cmd, response, faults, replaced>>

CatalogLockNext ==
    \E c \in Conns :
        \/ DatabaseMethodLock(c)
        \/ LoadDecode(c)
        \/ LoadMake(c)
        \/ LoadFill(c)
        \/ GetTableBody(c)
        \/ GetTableInfoBody(c)
        \/ CreateTableCheck(c)
        \/ CreateTableStore(c)
        \/ DatabaseMethodUnlock(c)

CatalogLockSpec == CatalogLockInit /\ [][CatalogLockNext]_vars

(***************************************************************************)
(* C16 (a successful Load replaces the catalog wholesale and atomically):  *)
(* when LoadFromDisk returns nil the catalog is the catalog of the file,   *)
(* with no table and no row of the prior catalog that the file does not    *)
(* hold; while it replaces the catalog no GetTable, GetTableInfo or        *)
(* CreateTable is inside its critical section; and once all calls have     *)
(* returned, the catalog and every result are those of the calls made one  *)
(* after another in some order, each Load replacing the whole catalog.     *)
(***************************************************************************)
InDatabase(c) == conn[c].pc \in {"body", "make", "fill", "store", "return"}
Loading(c) == conn[c].call.Type = "LoadFromDisk" /\ InDatabase(c)

\* the catalog and the result of a call made alone on the catalog tbls
AloneOnCatalog(tbls, call) ==
    CASE call.Type = "LoadFromDisk" ->
            LET r == LoadFromDisk(tbls, fs[DEFAULT_DB_FILE])
            IN  [tables |-> r.tables, ret |-> Ret(r.err, <<>>, 0)]
      [] call.Type = "CreateTable" ->
            LET r == CreateTable(tbls, call.TableName, call.Columns)
            IN  [tables |-> r.tables, ret |-> Ret(r.err, <<>>, 0)]
      [] call.Type = "GetTable" ->
            LET r == GetTable(tbls, call.TableName)
            IN  [tables |-> tbls,
                 ret |-> Ret(r.err, IF r.err = NoErr THEN <<r.table>> ELSE <<>>, 0)]
      [] OTHER ->
            LET r == GetTableInfo(tbls, call.TableName)
            IN  [tables |-> tbls, ret |-> Ret(r.err, r.columns, 0)]

RECURSIVE CatalogInOrder(_, _, _)
CatalogInOrder(order, k, tbls) ==
    IF k > Len(order)
    THEN tbls = tables
    ELSE LET a == AloneOnCatalog(tbls, conn[order[k]].call) IN
         /\ a.ret = conn[order[k]].ret
         /\ CatalogInOrder(order, k + 1, a.tables)

C16_LoadReplacesAtomically ==
    /\ \A c \in Conns :
          (Loading(c) /\ conn[c].pc = "return" /\ conn[c].ret.err = NoErr) =>
              /\ tables = Decode(fs[DEFAULT_DB_FILE].data)
              /\ tables = SavedCatalog
    /\ \A c, d \in Conns : (c # d /\ Loading(c)) => ~InDatabase(d)
    /\ AllDone => \E o \in Orders : CatalogInOrder(o, 1, PriorCatalog)

\* a GetTable that found users before the Load, a CreateTable(orders) that succeeded after it
C16_Witness ==
    /\ AllDone
    /\ \E c, d, e \in Conns :
          /\ conn[c].call.Type = "LoadFromDisk" /\ conn[c].ret.err = NoErr
          /\ conn[d].call.Type = "GetTable" /\ conn[d].ret.rows = <<PriorCatalog["users"]>>
          /\ conn[e].call.Type = "CreateTable" /\ conn[e].ret.err = NoErr
    /\ DOMAIN tables = {"users", "items", "orders"}
    /\ Len(tables["users"].Rows) = 1

(***************************************************************************)
(* CommandSpec: every command of the dispatcher, served one after another, *)
(* the file operations of the saves failing within the fault budget.       *)
(***************************************************************************)
CommandConditions == {EmptyMap, [id |-> One]}

CommandCreateStep ==
    \E name \in TableNames, columns \in Schemas, outcome \in SaveOutcomes :
        handleCreateTable(name, columns, outcome)

CommandInsertStep ==
    \E name \in TableNames, outcome \in SaveOutcomes,
       values \in {[id |-> One], [id |-> Two, name |-> Alice], [id |-> Alice]} :
        /\ name \in DOMAIN tables => Len(tables[name].Rows) < MaxRows
        /\ handleInsert(name, values, outcome)

CommandSelectStep ==
    \E name \in TableNames, conds \in CommandConditions : handleSelect(name, conds)

CommandUpdateStep ==
    \E name \in TableNames, conds \in CommandConditions, outcome \in SaveOutcomes,
       values \in {[id |-> Two], [id |-> Alice]} :
        handleUpdate(name, conds, values, outcome)

CommandDeleteStep ==
    \E name \in TableNames, conds \in CommandConditions, outcome \in SaveOutcomes :
        handleDelete(name, conds, outcome)

CommandNext ==
    \/ CommandCreateStep
    \/ CommandInsertStep
    \/ CommandSelectStep
    \/ CommandUpdateStep
    \/ CommandDeleteStep
    \/ GetTableInfoStep
    \/ LoadStep
    \/ FaultySaveStep
    \/ handleUnknown

CommandSpec == Init /\ [][CommandNext]_vars

(***************************************************************************)
(* C24 (response envelope): the response of a command that failed has      *)
(* Success = false, an error message and no data; the response of a        *)
(* command that succeeded has Success = true and no error, and it carries  *)
(* data exactly when the command is a Select, a Delete or a GetTableInfo   *)
(* (none for CreateTable, Insert, Update, Save and Load).                  *)
(***************************************************************************)
C24_ResponseEnvelope ==
    cmd.Type # "None" =>
        /\ ~response.Success => (response.Error # NoErr /\ response.Data = NoData)
        /\ response.Success =>
              /\ response.Error = NoErr
              /\ response.Data # NoData <=> cmd.Type \in {"Select", "Delete", "GetTableInfo"}

\* a Save command that failed
C24_Witness ==
    /\ cmd.Type = "SaveToDisk"
    /\ ~response.Success
    /\ response.Error = Err("IOError", "")
    /\ response.Data = NoData

(***************************************************************************)
(* C27 (auto-save trigger): a CreateTable, Insert, Update or Delete that   *)
(* succeeds writes the catalog it has just changed to the default path     *)
(* (the write ending as the file system lets it end); a Select, a          *)
(* GetTableInfo, a Load and every command that fails write no file.        *)
(***************************************************************************)
C27_AutoSaveTrigger ==
    [][ /\ ( /\ cmd'.Type \in {"CreateTable", "Insert", "Update", "Delete"}
             /\ response'.Success )
           => \E outcome \in SaveOutcomes :
                 /\ fs' = [fs EXCEPT ![DEFAULT_DB_FILE] =
                             CASE outcome = "create_error" -> fs[DEFAULT_DB_FILE]
                               [] outcome = "encode_error" -> FilePartial
                               [] OTHER -> FileJSON(Encode(tables'))]
                 /\ faults' = faults + Failed(<<outcome>>)
        /\ ( \/ cmd'.Type \in {"Select", "GetTableInfo", "LoadFromDisk", "Unknown"}
             \/ /\ cmd'.Type \in {"CreateTable", "Insert", "Update", "Delete"}
                /\ ~response'.Success )
           => (fs' = fs /\ faults' = faults) ]_vars

\* an Insert whose auto-save brought the file, stale since a save failed, up to date
C27_Witness ==
    /\ cmd.Type = "Insert"
    /\ response.Success
    /\ faults = 1
    /\ Len(Target(cmd).Rows) >= 2
    /\ fs[DEFAULT_DB_FILE] = FileJSON(Encode(tables))

(***************************************************************************)
(* ConnectionSpec: the connections' loops.  A request is the JSON value a  *)
(* client has sent: a type and a payload that is absent, a string, or an   *)
(* object with the fields of a payload structure.                          *)
(***************************************************************************)
JSONAbsent == [kind |-> "absent", s |-> "", o |-> NoCommand]
JSONString(s) == [kind |-> "string", s |-> s, o |-> NoCommand]
JSONObject(o) == [kind |-> "object", s |-> "", o |-> o]

Request(type, payload) == [type |-> type, payload |-> payload]

\* the types whose payload UnmarshalJSON decodes into a structure
PayloadTypes == {"CreateTable", "Insert", "Select", "Update", "Delete", "GetTableInfo"}

\* a payload structure held in the interface value c.Payload
Struct(o) == [type |-> "struct", v |-> o]

\* Command.UnmarshalJSON: json.Unmarshal of the payload into the structure of
\* the type fails on an absent payload and on a string; no case for the
\* other types, whose c.Payload stays nil
UnmarshalJSON(req) ==
    IF req.type \in PayloadTypes
    THEN IF req.payload.kind = "object"
         THEN [err |-> NoErr, Type |-> req.type, Payload |-> Struct(req.payload.o)]
         ELSE [err |-> Err("InvalidPayload", ""), Type |-> req.type, Payload |-> Nil]
    ELSE [err |-> NoErr, Type |-> req.type, Payload |-> Nil]

handleCommand(c) ==
    CASE c.Type = "CreateTable" ->
             handleCreateTable(c.Payload.v.TableName, c.Payload.v.Columns, "ok")
      [] c.Type = "Insert" ->
             /\ c.Payload.v.TableName \in DOMAIN tables
                    => Len(tables[c.Payload.v.TableName].Rows) < MaxRows
             /\ handleInsert(c.Payload.v.TableName, c.Payload.v.Values, "ok")
      [] c.Type = "Select" -> handleSelect(c.Payload.v.TableName, c.Payload.v.Conditions)
      [] c.Type = "Update" ->
             handleUpdate(c.Payload.v.TableName, c.Payload.v.Conditions, c.Payload.v.Values, "ok")
      [] c.Type = "Delete" -> handleDelete(c.Payload.v.TableName, c.Payload.v.Conditions, "ok")
      [] c.Type = "SaveToDisk" -> handleSaveToDisk("ok", "ok", "ok", "ok")
      [] c.Type = "LoadFromDisk" -> handleLoadFromDisk(c.Payload)
      [] c.Type = "GetTableInfo" -> handleGetTableInfo(c.Payload.v.TableName)
      [] OTHER -> handleUnknown

\* one turn of handleConnection's loop: a Decode that fails ends the
\* goroutine, the deferred conn.Close() closes the connection and nothing is
\* written to it
ServeRequest(c, req) ==
    /\ conn[c].pc = "idle"
    /\ LET d == UnmarshalJSON(req) IN
       IF d.err # NoErr
       THEN /\ conn' = [conn EXCEPT ![c].pc = "closed"]
            /\ UNCHANGED <<tables, fs, cmd, response, faults, replaced, mu>>
       ELSE handleCommand(d)

ObjectRequests ==
    { Request("CreateTable", JSONObject(Command("CreateTable", "users", <<Col("id", "int"), Col("name", "string")>>, EmptyMap, EmptyMap, FALSE))),
      Request("Insert", JSONObject(Command("Insert", "users", <<>>, [id |-> One, name |-> Bob], EmptyMap, FALSE))),
      Request("Select", JSONObject(Command("Select", "users", <<>>, EmptyMap, [id |-> One], FALSE))),
      Request("Update", JSONObject(Command("Update", "users", <<>>, [name |-> Bob], [id |-> One], FALSE))),
      Request("Delete", JSONObject(Command("Delete", "users", <<>>, EmptyMap, [id |-> Two], FALSE))),
      Request("GetTableInfo", JSONObject(Command("GetTableInfo", "users", <<>>, EmptyMap, EmptyMap, FALSE))) }

Requests ==
    ObjectRequests
    \cup { Request(t, p) : t \in PayloadTypes, p \in {JSONAbsent, JSONString("users")} }
    \cup { Request(t, JSONAbsent) : t \in {"SaveToDisk", "LoadFromDisk", "Unknown"} }
    \cup { Request("LoadFromDisk", JSONString(backupFile)) }

handleConnection(c) == \E req \in Requests : ServeRequest(c, req)

\* main's loop: listener.Accept() and go handleConnection
Accept(c) ==
    /\ conn[c].pc = "closed"
    /\ conn' = [conn EXCEPT ![c].pc = "idle"]
    /\ UNCHANGED <<tables, fs, cmd, response, faults, replaced, mu>>

\* the server has loaded the snapshot of the default path; the backup of an
\* earlier Save, whose os.Remove failed, holds an older catalog
ConnectionInit ==
    /\ tables = [n \in {"users"} |-> Table("users", UsersColumns, UsersRows)]
    /\ fs = [p \in Paths |->
                IF p = DEFAULT_DB_FILE
                THEN FileJSON(Encode(tables))
                ELSE FileJSON(Encode([n \in {"users"} |->
                                         Table("users", UsersColumns, SubSeq(UsersRows, 1, 1))]))]
    /\ cmd = NoCommand
    /\ response = Response(TRUE, NoData, NoErr)
    /\ faults = 0
    /\ mu = [m \in MutexNames |-> Free]
    /\ replaced = <<>>
    /\ conn = [c \in Conns |-> Goroutine("idle", NoCommand)]

ConnectionNext == \E c \in Conns : handleConnection(c) \/ Accept(c)

ConnectionSpec == ConnectionInit /\ [][ConnectionNext]_vars

\* the payload of the request does not have the shape its type requires
Malformed(req) == req.type \in PayloadTypes /\ req.payload.kind # "object"

(***************************************************************************)
(* C25 (a malformed request never stops service): when the payload of a    *)
(* request does not have the shape its type requires, the server answers   *)
(* with a failure response (InvalidPayload or DecodeError), leaves the     *)
(* catalog unchanged and keeps the connection open for the next request;   *)
(* the other connections are not affected.                                 *)
(***************************************************************************)
C25_MalformedRequestAnswered ==
    [][ \A c \in Conns, req \in Requests :
          (ServeRequest(c, req) /\ Malformed(req)) =>
              /\ ~response'.Success
              /\ response'.Error.kind \in {"InvalidPayload", "DecodeError"}
              /\ tables' = tables
              /\ conn'[c].pc = "idle"
              /\ \A d \in Conns \ {c} : conn'[d] = conn[d] ]_vars

(***************************************************************************)
(* C26 (path of a Load command): a Load request whose payload is the       *)
(* string P replaces the catalog by the snapshot of the file at P; a Load  *)
(* request without a payload loads the file at the default path.           *)
(***************************************************************************)
C26_LoadPathSelection ==
    [][ \A c \in Conns, req \in Requests :
          (ServeRequest(c, req) /\ req.type = "LoadFromDisk") =>
              LET path == IF req.payload.kind = "string"
                          THEN req.payload.s ELSE DEFAULT_DB_FILE
                  r == LoadFromDisk(tables, FileAt(fs, path))
              IN  /\ tables' = r.tables
                  /\ response'.Success <=> r.err = NoErr ]_vars

(***************************************************************************)
(* SnapshotSpec: MaxConns goroutines, each calling Database.SaveToDisk or  *)
(* one method of a Table, run statement by statement.  The catalog holds   *)
(* users (two rows) and items (no row).  SaveToDisk takes db.mu.RLock()    *)
(* and no Table's mutex: its reads of table.Rows and of the rows' maps are *)
(* not ordered with the writes of a Table method that holds the Table's    *)
(* mutex, and what such a read returns is one of the values the writes     *)
(* leave in memory on their way.                                           *)
(***************************************************************************)
Carol == String(3)

SnapshotCatalog ==
    [n \in {"users", "items"} |->
        IF n = "users"
        THEN Table("users", UsersColumns, UsersRows)
        ELSE Table("items", ItemsColumns, <<>>)]

SnapshotCalls ==
    { Command("SaveToDisk", "", <<>>, EmptyMap, EmptyMap, TRUE),
      Command("Insert", "users", <<>>, [id |-> One, name |-> Carol], EmptyMap, TRUE),
      Command("Insert", "items", <<>>, [id |-> One], EmptyMap, TRUE),
      Command("Update", "users", <<>>, [name |-> Carol], EmptyMap, TRUE) }

SnapshotInit ==
    /\ tables = SnapshotCatalog
    /\ fs = [p \in Paths |-> IF p = DEFAULT_DB_FILE
                             THEN FileJSON(Encode(tables)) ELSE FileAbsent]
    /\ cmd = NoCommand
    /\ response = Response(TRUE, NoData, NoErr)
    /\ faults = 0
    /\ mu = [m \in MutexNames |-> Free]
    /\ replaced = <<>>
    /\ conn \in [Conns -> {Goroutine(IF call.Type = "SaveToDisk" THEN "save" ELSE "call", call) :
                                call \in SnapshotCalls}]

\* a SaveToDisk that takes the catalog's write lock
SaveToDiskLock_exclusive(c) ==
    /\ conn[c].pc = "save"
    /\ CanLock(mu["db"])
    /\ mu' = [mu EXCEPT !["db"] = Lock(@, c)]
    /\ conn' = [conn EXCEPT ![c].pc = "create"]
    /\ UNCHANGED <<tables, fs, cmd, response, faults, replaced>>

\* db.mu.RLock() of SaveToDisk
SaveToDiskLock(c) ==
    /\ conn[c].pc = "save"
    /\ CanRLock(mu["db"])
    /\ mu' = [mu EXCEPT !["db"] = RLock(@, c)]
    /\ conn' = [conn EXCEPT ![c].pc = "create"]
    /\ UNCHANGED <<tables, fs, cmd, response, faults, replaced>>

\* os.Create(filename) opens the file of that path, emptied, or a new file;
\* data := make(map[string]TableData)
SaveToDiskCreate(c) ==
    /\ conn[c].pc = "create"
    /\ fs' = [fs EXCEPT ![DEFAULT_DB_FILE] = FilePartial]
    /\ conn' = [conn EXCEPT ![c].pc = "range", ![c].acc = EmptyMap,
                            ![c].fd = DEFAULT_DB_FILE]
    /\ UNCHANGED <<tables, cmd, response, faults, replaced, mu>>

\* the lengths that a read of t.Rows can return: the length of the slice, or,
\* while an Insert is about to execute t.Rows = append(t.Rows, row), the new
\* length, which append stores before it stores the row
RowsLen(name) ==
    {Len(tables[name].Rows)}
    \cup {Len(tables[name].Rows) + 1 : d \in
            {d \in Conns : /\ \/ conn[d].pc = "body"
                              \/ conn[d].pc = "inTable" /\ conn[d].gen = Len(replaced)
                           /\ conn[d].call.Type = "Insert"
                           /\ conn[d].call.TableName = name
                           /\ TableInsert(tables[name], conn[d].call.Values).err = NoErr}}

\* an element of a copied slice: the map that is the table's row number at, or
\* a map that Delete has dropped from the table, which no method changes again
RowAt(at) == [at |-> at, row |-> EmptyMap]
Dropped(row) == [at |-> 0, row |-> row]

\* one turn of for name, table := range db.tables (in any order):
\* data[name] = TableData{Name, Columns, Rows: table.Rows}, the slice header
\* copied and the rows' maps shared with the table
SaveToDiskRange(c) ==
    /\ conn[c].pc = "range"
    /\ LET data == conn[c].acc IN
       IF DOMAIN tables \subseteq DOMAIN data
       THEN conn' = [conn EXCEPT ![c].pc = "encode"]
       ELSE \E name \in DOMAIN tables \ DOMAIN data : \E n \in RowsLen(name) :
               conn' = [conn EXCEPT ![c].acc =
                           MapAssign(data, name,
                                     [Name |-> tables[name].Name,
                                      Columns |-> tables[name].Columns,
                                      Rows |-> [i \in 1..n |-> RowAt(i)]])]
    /\ UNCHANGED <<tables, fs, cmd, response, faults, replaced, mu>>

\* encoder.Encode(data): the rows' maps are read now, as the Table methods
\* have left them; an element that append has not stored yet is a nil map.
\* The text goes in one Write to the start of the file that os.Create has
\* returned, wherever a Rename has moved it since (nowhere once it has been
\* removed or replaced); what a longer text written before leaves behind it
\* is not reached by a Decode, which reads one JSON value.
SaveToDiskEncode(c) ==
    /\ conn[c].pc = "encode"
    /\ LET data == conn[c].acc
           text == [name \in DOMAIN data |->
                      [name |-> data[name].Name,
                       columns |-> [i \in 1..Len(data[name].Columns) |->
                                       EncodeColumn(data[name].Columns[i])],
                       rows |-> [i \in 1..Len(data[name].Rows) |->
                                   LET r == data[name].Rows[i] IN
                                   CASE r.at = 0 -> EncodeRow(r.row)
                                     [] r.at <= Len(tables[name].Rows) ->
                                            EncodeRow(tables[name].Rows[r.at])
                                     [] OTHER -> JSONNull]]]
       IN  fs' = IF conn[c].fd \in Paths
                 THEN [fs EXCEPT ![conn[c].fd] = FileJSON(text)]
                 ELSE fs
    /\ conn' = [conn EXCEPT ![c].pc = "saved", ![c].acc = <<>>]
    /\ UNCHANGED <<tables, cmd, response, faults, replaced, mu>>

\* the deferred file.Close() and db.mu.RUnlock(); back in the caller: a
\* direct call is over, handleSaveToDisk goes on to remove the backup, and
\* the handler that has called autoSave returns its response
SaveToDiskUnlock(c) ==
    /\ conn[c].pc = "saved"
    /\ mu' = [mu EXCEPT !["db"] = RUnlock(@, c)]
    /\ conn' = [conn EXCEPT ![c].pc = IF ~conn[c].call.direct /\ conn[c].call.Type = "SaveToDisk"
                                      THEN "remove" ELSE "done",
                            ![c].fd = ""]
    /\ UNCHANGED <<tables, fs, cmd, response, faults, replaced>>

SnapshotNext ==
    \E c \in Conns :
        \/ SaveToDiskLock(c)
        \/ SaveToDiskCreate(c)
        \/ SaveToDiskRange(c)
        \/ SaveToDiskEncode(c)
        \/ SaveToDiskUnlock(c)
        \/ TableMethodLock(c)
        \/ InsertBody(c)
        \/ UpdateCheck(c)
        \/ UpdateOneRow(c)
        \/ TableMethodUnlock(c)

SnapshotSpec == SnapshotInit /\ [][SnapshotNext]_vars

\* the goroutine is between the lock and the unlock of SaveToDisk
InSave(c) == conn[c].pc \in {"create", "range", "encode", "saved"}

\* the sequences of distinct goroutines, of every length
SubOrders ==
    {o \in UNION {[1..n -> Conns] : n \in 0..MaxConns} :
        \A i, j \in DOMAIN o : o[i] = o[j] => i = j}

\* the rows of a table after the calls of order[k], order[k+1], ... that are
\* calls on it have been made one after another
RECURSIVE RowsAfter(_, _, _)
RowsAfter(t, order, k) ==
    IF k > Len(order)
    THEN t.Rows
    ELSE LET call == conn[order[k]].call IN
         CASE call.Type = "Insert" /\ call.TableName = t.Name ->
                 RowsAfter(TableInsert(t, call.Values).table, order, k + 1)
           [] call.Type = "Update" /\ call.TableName = t.Name ->
                 RowsAfter(TableUpdate(t, Closure(call.Conditions), call.Values).table,
                           order, k + 1)
           [] OTHER -> RowsAfter(t, order, k + 1)

\* the JSON texts of the row sequences that the table can hold between calls
RowsBetweenCalls(name) ==
    { [i \in 1..Len(rows) |-> EncodeRow(rows[i])] :
        rows \in {RowsAfter(SnapshotCatalog[name], o, 1) : o \in SubOrders} }

\* the file holds a snapshot
Written == fs[DEFAULT_DB_FILE].state = "json"
SavedRows(name) == fs[DEFAULT_DB_FILE].data[name].rows

(***************************************************************************)
(* C21 (a snapshot is no consistent cut): SaveToDisk holds the read lock   *)
(* of the catalog and the lock of no table, so an Insert that runs during  *)
(* a Save is safe for its table (once the calls have returned, every table *)
(* holds the rows of its calls made one after another), while the snapshot *)
(* written can hold one table as it was before a call and another as it    *)
(* was after one.                                                          *)
(***************************************************************************)
C21_SaveHoldsOnlyCatalogReadLock ==
    /\ \A c \in Conns :
          InSave(c) => /\ c \in mu["db"].readers
                       /\ mu["db"].writer = 0
                       /\ \A t \in DOMAIN tables : c \notin mu[t].readers /\ mu[t].writer # c
    /\ AllDone =>
          \A name \in DOMAIN tables :
              \E o \in Orders : tables[name].Rows = RowsAfter(SnapshotCatalog[name], o, 1)

\* the snapshot holds users without the row that the catalog's users has got,
\* and items with the row inserted into it
C21_Witness ==
    /\ AllDone
    /\ \E c, d, e \in Conns :
          /\ conn[c].call.Type = "SaveToDisk"
          /\ conn[d].call.Type = "Insert" /\ conn[d].call.TableName = "users"
          /\ conn[e].call.Type = "Insert" /\ conn[e].call.TableName = "items"
    /\ Written
    /\ Len(tables["users"].Rows) = 3 /\ Len(tables["items"].Rows) = 1
    /\ SavedRows("users") = Encode(SnapshotCatalog)["users"].rows
    /\ SavedRows("items") = Encode(tables)["items"].rows

(***************************************************************************)
(* C29 (per-table snapshot consistency): whatever Insert and Update calls  *)
(* run on a table during a Save, the rows written for the table are the    *)
(* rows that the table held between two calls: never the rows of an Update *)
(* that has changed some of its rows and not yet the others, nor a row     *)
(* sequence that the table never held.                                     *)
(***************************************************************************)
C29_SnapshotRowsOfOneInstant ==
    Written => \A name \in DOMAIN tables : SavedRows(name) \in RowsBetweenCalls(name)

(***************************************************************************)
(* SaveSpec: MaxConns connections, each serving a Save command:            *)
(* handleSaveToDisk run statement by statement, every file operation       *)
(* succeeding when the file it names exists.                               *)
(***************************************************************************)
\* the files that the goroutines hold open, after the file at path from has
\* been moved to path to (to = "": removed); the file that was at to is gone
Moved(from, to) ==
    [d \in Conns |->
        [conn[d] EXCEPT !.fd = CASE @ = from -> to
                                 [] @ = to /\ to # "" -> "-"
                                 [] OTHER -> @]]

\* if _, err := os.Stat(DEFAULT_DB_FILE); err == nil
HandleSaveStat(c) ==
    /\ conn[c].pc = "stat"
    /\ conn' = [conn EXCEPT ![c].pc = IF fs[DEFAULT_DB_FILE].state # "absent"
                                      THEN "rename" ELSE "save"]
    /\ UNCHANGED <<tables, fs, cmd, response, faults, replaced, mu>>

\* os.Rename(DEFAULT_DB_FILE, backupFile), its error only logged
HandleSaveRename(c) ==
    /\ conn[c].pc = "rename"
    /\ IF fs[DEFAULT_DB_FILE].state # "absent"
       THEN /\ fs' = [fs EXCEPT ![backupFile] = fs[DEFAULT_DB_FILE],
                                ![DEFAULT_DB_FILE] = FileAbsent]
            /\ conn' = [Moved(DEFAULT_DB_FILE, backupFile) EXCEPT ![c].pc = "save"]
       ELSE /\ conn' = [conn EXCEPT ![c].pc = "save"]
            /\ UNCHANGED fs
    /\ UNCHANGED <<tables, cmd, response, faults, replaced, mu>>

\* os.Remove(backupFile), its error only logged; return Response{Success: true}
HandleSaveRemove(c) ==
    /\ conn[c].pc = "remove"
    /\ fs' = [fs EXCEPT ![backupFile] = FileAbsent]
    /\ conn' = [Moved(backupFile, "") EXCEPT ![c].pc = "done", ![c].ret = Ret(NoErr, <<>>, 0)]
    /\ UNCHANGED <<tables, cmd, response, faults, replaced, mu>>

SaveInit ==
    /\ tables = SnapshotCatalog
    /\ fs = [p \in Paths |-> IF p = DEFAULT_DB_FILE
                             THEN FileJSON(Encode(tables)) ELSE FileAbsent]
    /\ cmd = NoCommand
    /\ response = Response(TRUE, NoData, NoErr)
    /\ faults = 0
    /\ mu = [m \in MutexNames |-> Free]
    /\ replaced = <<>>
    /\ conn = [c \in Conns |->
                 Goroutine("stat", Command("SaveToDisk", "", <<>>, EmptyMap, EmptyMap, FALSE))]

SaveNext ==
    \E c \in Conns :
        \/ HandleSaveStat(c)
        \/ HandleSaveRename(c)
        \/ SaveToDiskLock(c)
        \/ SaveToDiskCreate(c)
        \/ SaveToDiskRange(c)
        \/ SaveToDiskEncode(c)
        \/ SaveToDiskUnlock(c)
        \/ HandleSaveRemove(c)

SaveSpec == SaveInit /\ [][SaveNext]_vars

(***************************************************************************)
(* C22 (Save commands do not exclude each other): a Save command takes     *)
(* the read lock of the catalog and nothing else, so it never waits for    *)
(* another Save command, at no statement; the renames, the writes and the  *)
(* removals of several Save commands interleave.                           *)
(***************************************************************************)
C22_SavesNotExcluded ==
    \A c \in Conns :
        /\ conn[c].pc # "done" => ENABLED (\/ HandleSaveStat(c) \/ HandleSaveRename(c)
                                          \/ SaveToDiskLock(c) \/ SaveToDiskCreate(c)
                                          \/ SaveToDiskRange(c) \/ SaveToDiskEncode(c)
                                          \/ SaveToDiskUnlock(c) \/ HandleSaveRemove(c))
        /\ InSave(c) => (c \in mu["db"].readers /\ mu["db"].writer = 0)

\* two Save commands are inside SaveToDisk at once: the file that the first has
\* created has been renamed to the backup by the second, which has created a
\* new one, and a third has already removed a backup
C22_Witness ==
    \E c, d, e \in Conns :
        /\ conn[c].pc = "encode" /\ conn[c].fd = backupFile
        /\ conn[d].pc = "encode" /\ conn[d].fd = DEFAULT_DB_FILE
        /\ conn[e].pc = "done"

(***************************************************************************)
(* HandlerSpec: MaxConns connections, each serving one command: the        *)
(* handler run call by call, the methods of Database statement by          *)
(* statement, a method of Table as one step under the Table's mutex.  The  *)
(* catalog holds users (two rows); the snapshot file is older.             *)
(* Every file operation succeeds when the file it names exists.            *)
(***************************************************************************)
\* the *Table that GetTable has returned is still the one of the catalog
Current(c) == conn[c].gen = Len(replaced)

\* the Table that the goroutine's *Table points to, and its mutex
TableOf(c) ==
    IF Current(c)
    THEN tables[conn[c].call.TableName]
    ELSE replaced[conn[c].gen + 1][conn[c].call.TableName].table

MutexOf(c) ==
    IF Current(c)
    THEN mu[conn[c].call.TableName]
    ELSE replaced[conn[c].gen + 1][conn[c].call.TableName].mu

\* db.mu.RLock() of the GetTable that handleInsert, handleSelect, handleUpdate
\* and handleDelete call first
HandlerGetTableLock(c) ==
    /\ conn[c].pc = "getTable"
    /\ CanRLock(mu["db"])
    /\ mu' = [mu EXCEPT !["db"] = RLock(@, c)]
    /\ conn' = [conn EXCEPT ![c].pc = "lookup"]
    /\ UNCHANGED <<tables, fs, cmd, response, faults, replaced>>

\* a GetTable that returns with db.mu still read-locked
HandlerGetTable_keepsLock(c) ==
    /\ conn[c].pc = "lookup"
    /\ IF conn[c].call.TableName \in DOMAIN tables
       THEN conn' = [conn EXCEPT ![c].pc = "table", ![c].gen = Len(replaced)]
       ELSE conn' = [conn EXCEPT
                       ![c].pc = "returned",
                       ![c].ret = Ret(Err("TableNotFound", conn[c].call.TableName), <<>>, 0)]
    /\ UNCHANGED <<tables, fs, cmd, response, faults, replaced, mu>>

\* GetTable: table, exists := db.tables[name], and the deferred db.mu.RUnlock()
HandlerGetTable(c) ==
    /\ conn[c].pc = "lookup"
    /\ mu' = [mu EXCEPT !["db"] = RUnlock(@, c)]
    /\ IF conn[c].call.TableName \in DOMAIN tables
       THEN conn' = [conn EXCEPT ![c].pc = "table", ![c].gen = Len(replaced)]
       ELSE conn' = [conn EXCEPT
                       ![c].pc = "returned",
                       ![c].ret = Ret(Err("TableNotFound", conn[c].call.TableName), <<>>, 0)]
    /\ UNCHANGED <<tables, fs, cmd, response, faults, replaced>>

\* t.mu.Lock() of Insert, Update and Delete; t.mu.RLock() of Select
HandlerTableLock(c) ==
    /\ conn[c].pc = "table"
    /\ LET name == conn[c].call.TableName
           m == IF conn[c].call.Type = "Select"
                THEN RLock(MutexOf(c), c) ELSE Lock(MutexOf(c), c)
       IN  /\ IF conn[c].call.Type = "Select"
              THEN CanRLock(MutexOf(c)) ELSE CanLock(MutexOf(c))
           /\ IF Current(c)
              THEN /\ mu' = [mu EXCEPT ![name] = m]
                   /\ UNCHANGED replaced
              ELSE /\ replaced' = [replaced EXCEPT ![conn[c].gen + 1][name].mu = m]
                   /\ UNCHANGED mu
    /\ conn' = [conn EXCEPT ![c].pc = "inTable"]
    /\ UNCHANGED <<tables, fs, cmd, response, faults>>

\* what the copied slices of the goroutines inside SaveToDisk refer to once a
\* Delete has given the table a new slice of the maps it keeps
AfterDelete(name, Rows, conds) ==
    [d \in Conns |->
        IF conn[d].pc \in {"range", "encode"} /\ name \in DOMAIN conn[d].acc
        THEN [conn[d] EXCEPT !.acc[name].Rows =
                [i \in 1..Len(conn[d].acc[name].Rows) |->
                    LET r == conn[d].acc[name].Rows[i] IN
                    CASE r.at = 0 \/ r.at > Len(Rows) -> r
                      [] condition(conds, Rows[r.at]) -> Dropped(Rows[r.at])
                      [] OTHER -> RowAt(Cardinality({k \in 1..r.at :
                                                       ~condition(conds, Rows[k])}))]]
        ELSE conn[d]]

\* the method of the Table, and the deferred t.mu.Unlock() or t.mu.RUnlock()
HandlerTableMethod(c) ==
    /\ conn[c].pc = "inTable"
    /\ LET call == conn[c].call
           name == call.TableName
           t == TableOf(c)
           r == CASE call.Type = "Insert" ->
                        LET x == TableInsert(t, call.Values)
                        IN  [table |-> x.table, ret |-> Ret(x.err, <<>>, 0)]
                  [] call.Type = "Update" ->
                        LET x == TableUpdate(t, Closure(call.Conditions), call.Values)
                        IN  [table |-> x.table, ret |-> Ret(x.err, <<>>, 0)]
                  [] call.Type = "Delete" ->
                        LET x == TableDelete(t, Closure(call.Conditions))
                        IN  [table |-> x.table, ret |-> Ret(x.err, <<>>, x.count)]
                  [] OTHER ->
                        [table |-> t,
                         ret |-> Ret(NoErr, TableSelect(t, Closure(call.Conditions)), 0)]
           m == IF call.Type = "Select"
                THEN RUnlock(MutexOf(c), c) ELSE Unlock(MutexOf(c), c)
           others == IF Current(c) /\ call.Type = "Delete" /\ r.ret.err = NoErr
                     THEN AfterDelete(name, t.Rows, call.Conditions)
                     ELSE conn
       IN  /\ IF Current(c)
              THEN /\ tables' = StoreTable(tables, name, r.table)
                   /\ mu' = [mu EXCEPT ![name] = m]
                   /\ UNCHANGED replaced
              ELSE /\ replaced' = [replaced EXCEPT ![conn[c].gen + 1][name] =
                                     [table |-> r.table, mu |-> m]]
                   /\ UNCHANGED <<tables, mu>>
           /\ conn' = [others EXCEPT ![c].pc = "returned", ![c].ret = r.ret]
    /\ UNCHANGED <<fs, cmd, response, faults>>

\* back in the handler: autoSave(database) after a CreateTable, Insert, Update
\* or Delete that has returned nil, then the response; the response at once
\* after an error and in the handlers that do not save
HandlerReturn(c) ==
    /\ conn[c].pc = "returned"
    /\ conn' = [conn EXCEPT ![c].pc =
                  IF /\ conn[c].ret.err = NoErr
                     /\ conn[c].call.Type \in {"CreateTable", "Insert", "Update", "Delete"}
                  THEN "save" ELSE "done"]
    /\ UNCHANGED <<tables, fs, cmd, response, faults, replaced, mu>>

\* where the handler of a command starts
Entry(call) ==
    CASE call.Type \in {"Insert", "Select", "Update", "Delete"} -> "getTable"
      [] call.Type = "SaveToDisk" -> "stat"
      [] OTHER -> "call"

HandlerCalls ==
    << Command("Insert", "users", <<>>, [id |-> One, name |-> Carol], EmptyMap, FALSE),
       Command("Select", "users", <<>>, EmptyMap, [id |-> One], FALSE),
       Command("Update", "users", <<>>, [name |-> Carol], [id |-> Two], FALSE),
       Command("Delete", "users", <<>>, EmptyMap, [id |-> Two], FALSE),
       Command("CreateTable", "orders", ItemsColumns, EmptyMap, EmptyMap, FALSE),
       Command("GetTableInfo", "users", <<>>, EmptyMap, EmptyMap, FALSE),
       Command("SaveToDisk", "", <<>>, EmptyMap, EmptyMap, FALSE),
       Command("LoadFromDisk", "", <<>>, EmptyMap, EmptyMap, FALSE) >>

\* the ways to hand commands to the connections, up to the connections' names
Assignments(calls) ==
    {f \in [Conns -> DOMAIN calls] : \A c, d \in Conns : c <= d => f[c] <= f[d]}

\* users with its two rows, and users with the first of them
HandlerCatalog == [n \in {"users"} |-> Table("users", UsersColumns, UsersRows)]
HandlerSaved == [n \in {"users"} |-> Table("users", UsersColumns, SubSeq(UsersRows, 1, 1))]

HandlerInit ==
    /\ tables = HandlerCatalog
    /\ fs = [p \in Paths |-> IF p = DEFAULT_DB_FILE
                             THEN FileJSON(Encode(HandlerSaved)) ELSE FileAbsent]
    /\ cmd = NoCommand
    /\ response = Response(TRUE, NoData, NoErr)
    /\ faults = 0
    /\ mu = [m \in MutexNames |-> Free]
    /\ replaced = <<>>
    /\ \E f \in Assignments(HandlerCalls) :
          conn = [c \in Conns |-> Goroutine(Entry(HandlerCalls[f[c]]), HandlerCalls[f[c]])]

HandlerStep(c) ==
    \/ HandlerGetTableLock(c)
    \/ HandlerGetTable(c)
    \/ HandlerTableLock(c)
    \/ HandlerTableMethod(c)
    \/ HandlerReturn(c)
    \/ DatabaseMethodLock(c)
    \/ LoadDecode(c)
    \/ LoadMake(c)
    \/ LoadFill(c)
    \/ GetTableInfoBody(c)
    \/ CreateTableCheck(c)
    \/ CreateTableStore(c)
    \/ DatabaseMethodUnlock(c)
    \/ HandleSaveStat(c)
    \/ HandleSaveRename(c)
    \/ SaveToDiskLock(c)
    \/ SaveToDiskCreate(c)
    \/ SaveToDiskRange(c)
    \/ SaveToDiskEncode(c)
    \/ SaveToDiskUnlock(c)
    \/ HandleSaveRemove(c)

HandlerNext == \E c \in Conns : HandlerStep(c)

HandlerSpec == HandlerInit /\ [][HandlerNext]_vars

\* the scheduler runs a goroutine that can take a step
HandlerFairSpec == HandlerSpec /\ WF_vars(HandlerNext)

\* the goroutine holds the mutex, as its writer or as one of its readers
Holds(l, c) == l.writer = c \/ c \in l.readers

\* the names of the Tables whose mutex the goroutine holds, replaced Tables included
TablesHeld(c) ==
    {n \in MutexNames \ {"db"} : Holds(mu[n], c)}
    \cup UNION {{n \in DOMAIN replaced[g] : Holds(replaced[g][n].mu, c)} : g \in DOMAIN replaced}

LockDiscipline ==
    \A c \in Conns :
        /\ ~(Holds(mu["db"], c) /\ TablesHeld(c) # {})
        /\ TablesHeld(c) # {} =>
              /\ conn[c].call.Type \in {"Insert", "Select", "Update", "Delete"}
              /\ TablesHeld(c) = {conn[c].call.TableName}

(***************************************************************************)
(* C23 (lock discipline): no goroutine ever holds the mutex of a Table and *)
(* the mutex of the catalog at once, and a Table method holds the mutex of *)
(* its own Table only; hence whatever commands run together, some command  *)
(* can always take a step until all are done, and all of them get done.    *)
(***************************************************************************)
C23_LockDiscipline ==
    /\ [](LockDiscipline /\ (AllDone \/ ENABLED HandlerNext))
    /\ <>AllDone

\* a command is inside a method of users, holding its mutex, while another
\* holds the write lock of the catalog and a third is about to call GetTable
C23_Witness ==
    \E c, d \in Conns :
        /\ conn[c].pc = "inTable" /\ TablesHeld(c) = {"users"}
        /\ mu["db"].writer = d
        /\ \E e \in Conns : conn[e].pc = "getTable"

(***************************************************************************)
(* C28 (no mutation through a stale *Table): an Insert, Update or Delete   *)
(* that returns nil has changed the Table that the catalog maps the name   *)
(* to when the method runs, never a Table that a Load has removed from the *)
(* catalog since the handler's GetTable.                                   *)
(***************************************************************************)
C28_MutationOnCatalogTable ==
    [][ \A c \in Conns :
          ( /\ conn[c].pc = "inTable"
            /\ conn'[c].pc = "returned"
            /\ conn[c].call.Type \in {"Insert", "Update", "Delete"}
            /\ conn'[c].ret.err = NoErr )
          => /\ Current(c)
             /\ conn[c].call.TableName \in DOMAIN tables ]_vars

(***************************************************************************)
(* MutationSpec: MaxConns connections, each serving one CreateTable,       *)
(* Insert, Update or Delete command, the handlers run as in HandlerSpec.   *)
(* No Load and no Save command; the file holds the catalog's snapshot.     *)
(***************************************************************************)
MutationCalls ==
    << Command("Insert", "users", <<>>, [id |-> One, name |-> Carol], EmptyMap, FALSE),
       Command("Update", "users", <<>>, [name |-> Carol], [id |-> Two], FALSE),
       Command("Delete", "users", <<>>, EmptyMap, [id |-> One], FALSE),
       Command("CreateTable", "orders", ItemsColumns, EmptyMap, EmptyMap, FALSE) >>

MutationInit ==
    /\ tables = HandlerCatalog
    /\ fs = [p \in Paths |-> IF p = DEFAULT_DB_FILE
                             THEN FileJSON(Encode(tables)) ELSE FileAbsent]
    /\ cmd = NoCommand
    /\ response = Response(TRUE, NoData, NoErr)
    /\ faults = 0
    /\ mu = [m \in MutexNames |-> Free]
    /\ replaced = <<>>
    /\ \E f \in Assignments(MutationCalls) :
          conn = [c \in Conns |-> Goroutine(Entry(MutationCalls[f[c]]), MutationCalls[f[c]])]

MutationNext ==
    \E c \in Conns :
        \/ HandlerGetTableLock(c)
        \/ HandlerGetTable(c)
        \/ HandlerTableLock(c)
        \/ HandlerTableMethod(c)
        \/ HandlerReturn(c)
        \/ DatabaseMethodLock(c)
        \/ CreateTableCheck(c)
        \/ CreateTableStore(c)
        \/ DatabaseMethodUnlock(c)
        \/ SaveToDiskLock(c)
        \/ SaveToDiskCreate(c)
        \/ SaveToDiskRange(c)
        \/ SaveToDiskEncode(c)
        \/ SaveToDiskUnlock(c)

MutationSpec == MutationInit /\ [][MutationNext]_vars

(***************************************************************************)
(* C30 (the snapshot catches up): whatever mutating commands the           *)
(* connections have run together, once all of them have returned (so that  *)
(* no save is in progress) the file at the default path holds the snapshot *)
(* of the catalog: no auto-save writes an older catalog over a newer one.  *)
(***************************************************************************)
C30_SnapshotCatchesUp ==
    AllDone => fs[DEFAULT_DB_FILE] = FileJSON(Encode(tables))

(***************************************************************************)
(* ErrorSpec: commands that name either of two tables, one after another,  *)
(* with Insert values that lack a column or hold a value of the wrong      *)
(* kind, every file operation succeeding.                                  *)
(***************************************************************************)
ErrorSchemas == { <<Col("id", "int"), Col("name", "string")>>, <<Col("name", "string")>> }
ErrorValues ==
    { [id |-> One, name |-> Alice], [name |-> Bob],
      [id |-> One], [id |-> Alice, name |-> Alice], [id |-> OneAndHalf, name |-> Alice],
      [id |-> Two, name |-> One], [name |-> Two], EmptyMap }

ErrorCreateStep ==
    \E name \in CatalogNames, columns \in ErrorSchemas : handleCreateTable(name, columns, "ok")

ErrorInsertStep ==
    \E name \in CatalogNames, values \in ErrorValues :
        /\ name \in DOMAIN tables => Len(tables[name].Rows) < MaxRows
        /\ handleInsert(name, values, "ok")

ErrorSelectStep ==
    \E name \in CatalogNames : handleSelect(name, [name |-> Alice])

ErrorUpdateStep ==
    \E name \in CatalogNames : handleUpdate(name, [name |-> Alice], [name |-> Bob], "ok")

ErrorDeleteStep ==
    \E name \in CatalogNames : handleDelete(name, [name |-> Bob], "ok")

ErrorInfoStep == \E name \in CatalogNames : handleGetTableInfo(name)

ErrorNext ==
    \/ ErrorCreateStep
    \/ ErrorInsertStep
    \/ ErrorSelectStep
    \/ ErrorUpdateStep
    \/ ErrorDeleteStep
    \/ ErrorInfoStep

ErrorSpec == Init /\ [][ErrorNext]_vars

(***************************************************************************)
(* C33 (a failed command changes no table): an Insert that fails, with     *)
(* MissingColumn or TypeMismatch on whichever column, or with              *)
(* TableNotFound, leaves every table as it was: no row is appended and no  *)
(* row is changed; an Insert, Select, Update, Delete or GetTableInfo that  *)
(* names a table the catalog does not hold fails with TableNotFound and    *)
(* leaves every table as it was.                                           *)
(***************************************************************************)
C33_FailedCommandChangesNoTable ==
    [][ /\ (cmd'.Type = "Insert" /\ ~response'.Success)
           => /\ tables' = tables
              /\ response'.Error.kind \in {"MissingColumn", "TypeMismatch", "TableNotFound"}
        /\ ( /\ cmd'.Type \in {"Insert", "Select", "Update", "Delete", "GetTableInfo"}
             /\ cmd'.TableName \notin DOMAIN tables )
           => /\ ~response'.Success
              /\ response'.Error = Err("TableNotFound", cmd'.TableName)
              /\ response'.Data = NoData
              /\ tables' = tables ]_vars

\* an Insert refused for its second column, the table holding rows, and the
\* other table not existing
C33_Witness ==
    /\ cmd.Type = "Insert"
    /\ ~response.Success
    /\ response.Error = Err("TypeMismatch", "name")
    /\ cmd.TableName \in DOMAIN tables
    /\ Len(tables[cmd.TableName].Rows) >= 2
    /\ \E n \in CatalogNames : n \notin DOMAIN tables

\* the catalog after the mutation of a CreateTable, Insert, Update or Delete
\* command c that succeeds on the catalog tbls
Mutated(tbls, c) ==
    CASE c.Type = "CreateTable" ->
            [n \in DOMAIN tbls \cup {c.TableName} |->
                IF n = c.TableName
                THEN Table(n, [i \in 1..Len(c.Columns) |->
                                 [Name |-> c.Columns[i].Name,
                                  Type |-> IF c.Columns[i].Type = "int"
                                           THEN TypeInt ELSE TypeString]], <<>>)
                ELSE tbls[n]]
      [] c.Type = "Insert" ->
            StoreTable(tbls, c.TableName, TableInsert(tbls[c.TableName], c.Values).table)
      [] c.Type = "Update" ->
            StoreTable(tbls, c.TableName,
                       TableUpdate(tbls[c.TableName], Closure(c.Conditions), c.Values).table)
      [] OTHER ->
            StoreTable(tbls, c.TableName,
                       TableDelete(tbls[c.TableName], Closure(c.Conditions)).table)

(***************************************************************************)
(* C34 (a failed auto-save is isolated): when the save that follows a      *)
(* successful CreateTable, Insert, Update or Delete fails, the response of *)
(* the command is success without an error, the catalog holds the          *)
(* command's mutation, and a snapshot that was stored at the default path  *)
(* before the command is still there, unchanged.                           *)
(***************************************************************************)
C34_FailedAutoSaveIsolated ==
    [][ ( /\ cmd'.Type \in {"CreateTable", "Insert", "Update", "Delete"}
          /\ faults' = faults + 1 )
        => /\ response'.Success
           /\ response'.Error = NoErr
           /\ tables' = Mutated(tables, cmd')
           /\ fs[DEFAULT_DB_FILE].state = "json" => fs' = fs ]_vars

(***************************************************************************)
(* CreateSpec: MaxConns connections, each serving a CreateTable of orders  *)
(* (with either of two column lists), a CreateTable of items or an Insert  *)
(* into orders; the handlers run as in MutationSpec.                       *)
(***************************************************************************)
CreateCalls ==
    << Command("CreateTable", "orders", ItemsColumns, EmptyMap, EmptyMap, FALSE),
       Command("CreateTable", "orders", UsersColumns, EmptyMap, EmptyMap, FALSE),
       Command("CreateTable", "items", ItemsColumns, EmptyMap, EmptyMap, FALSE),
       Command("Insert", "orders", <<>>, [id |-> One, name |-> Carol], EmptyMap, FALSE) >>

CreateInit ==
    /\ tables = HandlerCatalog
    /\ fs = [p \in Paths |-> IF p = DEFAULT_DB_FILE
                             THEN FileJSON(Encode(tables)) ELSE FileAbsent]
    /\ cmd = NoCommand
    /\ response = Response(TRUE, NoData, NoErr)
    /\ faults = 0
    /\ mu = [m \in MutexNames |-> Free]
    /\ replaced = <<>>
    /\ \E f \in Assignments(CreateCalls) :
          conn = [c \in Conns |-> Goroutine(Entry(CreateCalls[f[c]]), CreateCalls[f[c]])]

CreateSpec == CreateInit /\ [][MutationNext]_vars

\* database.CreateTable or table.Insert of connection c has returned
Returned(c) == conn[c].pc \in {"return", "returned", "save", "create", "range", "encode", "saved", "done"}
Creators(name) ==
    {c \in Conns : conn[c].call.Type = "CreateTable" /\ conn[c].call.TableName = name}
Winners(name) == {c \in Creators(name) : Returned(c) /\ conn[c].ret.err = NoErr}
Inserted(name) ==
    {c \in Conns : /\ conn[c].call.Type = "Insert" /\ conn[c].call.TableName = name
                   /\ Returned(c) /\ conn[c].ret.err = NoErr}

(***************************************************************************)
(* C32 (concurrent CreateTable): of the CreateTable calls that name the    *)
(* same new table exactly one succeeds and every other one fails with      *)
(* DuplicateTable, so that calls with distinct names all succeed; the      *)
(* table keeps the columns of the call that succeeded and every row that   *)
(* an Insert has put into it, whatever creation is refused afterwards.     *)
(***************************************************************************)
C32_ConcurrentCreateTable ==
    \A name \in {"orders", "items"} :
        /\ Cardinality(Winners(name)) <= 1
        /\ \A c \in Creators(name) :
              Returned(c) =>
                 /\ conn[c].ret.err \in {NoErr, Err("DuplicateTable", name)}
                 /\ Winners(name) # {}
        /\ name \in DOMAIN tables <=> Winners(name) # {}
        /\ \A c \in Winners(name) :
              /\ tables[name].Columns = conn[c].call.Columns
              /\ Len(tables[name].Rows) = Cardinality(Inserted(name))
              /\ \A i \in 1..Len(tables[name].Rows) :
                    tables[name].Rows[i] =
                        [k \in {conn[c].call.Columns[j].Name : j \in 1..Len(conn[c].call.Columns)}
                           |-> CreateCalls[4].Values[k]]
        /\ Winners(name) = {} => Inserted(name) = {}

\* a creation of orders is about to be refused: it holds the catalog lock
\* after another creation has succeeded and a row has been inserted
C32_Witness ==
    \E c, d, e \in Conns :
        /\ conn[c].call = CreateCalls[1] /\ conn[c].pc = "body"
        /\ d \in Winners("orders") /\ conn[d].call = CreateCalls[2]
        /\ e \in Inserted("orders")
        /\ Len(tables["orders"].Rows) = 1

(***************************************************************************)
(* SurvivalSpec: MaxConns connections, each serving a Save command or an   *)
(* Insert with its auto-save, the handlers run statement by statement.     *)
(* The file at the default path holds the snapshot of the catalog.  A      *)
(* write of a snapshot may fail, in os.Create or in Encode, at most        *)
(* MaxFaults times in a behaviour; renames and removals fail only for the  *)
(* lack of the file.                                                       *)
(***************************************************************************)
\* where the caller of SaveToDisk goes on after it has returned an error:
\* handleSaveToDisk to its restore branch, autoSave to its log line
AfterFailedSave(c) ==
    IF ~conn[c].call.direct /\ conn[c].call.Type = "SaveToDisk" THEN "restore" ELSE "done"

\* os.Create(filename) fails: return err, the deferred db.mu.RUnlock()
SaveToDiskCreateFails(c) ==
    /\ conn[c].pc = "create"
    /\ faults < MaxFaults
    /\ faults' = faults + 1
    /\ mu' = [mu EXCEPT !["db"] = RUnlock(@, c)]
    /\ conn' = [conn EXCEPT ![c].pc = AfterFailedSave(c),
                            ![c].ret = Ret(Err("IOError", ""), <<>>, 0)]
    /\ UNCHANGED <<tables, fs, cmd, response, replaced>>

\* encoder.Encode(data) fails: nothing is written, or a part of the text is
\* written to the file that os.Create has returned; return err, the
\* deferred file.Close() and db.mu.RUnlock()
SaveToDiskEncodeFails(c) ==
    /\ conn[c].pc = "encode"
    /\ faults < MaxFaults
    /\ faults' = faults + 1
    /\ \/ fs' = fs
       \/ fs' = IF conn[c].fd \in Paths
                THEN [fs EXCEPT ![conn[c].fd] = FilePartial]
                ELSE fs
    /\ mu' = [mu EXCEPT !["db"] = RUnlock(@, c)]
    /\ conn' = [conn EXCEPT ![c].pc = AfterFailedSave(c), ![c].acc = <<>>, ![c].fd = "",
                            ![c].ret = Ret(Err("IOError", ""), <<>>, 0)]
    /\ UNCHANGED <<tables, cmd, response, replaced>>

\* if _, err := os.Stat(backupFile); err == nil { os.Rename(backupFile,
\* DEFAULT_DB_FILE) }; return Response{Success: false, Error: err.Error()}
HandleSaveRestore(c) ==
    /\ conn[c].pc = "restore"
    /\ IF fs[backupFile].state # "absent"
       THEN /\ fs' = [fs EXCEPT ![DEFAULT_DB_FILE] = fs[backupFile],
                                ![backupFile] = FileAbsent]
            /\ conn' = [Moved(backupFile, DEFAULT_DB_FILE) EXCEPT ![c].pc = "done"]
       ELSE /\ conn' = [conn EXCEPT ![c].pc = "done"]
            /\ UNCHANGED fs
    /\ UNCHANGED <<tables, cmd, response, faults, replaced, mu>>

SurvivalCalls ==
    << Command("SaveToDisk", "", <<>>, EmptyMap, EmptyMap, FALSE),
       Command("Insert", "users", <<>>, [id |-> One, name |-> Carol], EmptyMap, FALSE) >>

SurvivalInit ==
    /\ tables = HandlerCatalog
    /\ fs = [p \in Paths |-> IF p = DEFAULT_DB_FILE
                             THEN FileJSON(Encode(tables)) ELSE FileAbsent]
    /\ cmd = NoCommand
    /\ response = Response(TRUE, NoData, NoErr)
    /\ faults = 0
    /\ mu = [m \in MutexNames |-> Free]
    /\ replaced = <<>>
    /\ \E f \in Assignments(SurvivalCalls) :
          conn = [c \in Conns |-> Goroutine(Entry(SurvivalCalls[f[c]]), SurvivalCalls[f[c]])]

SurvivalNext ==
    \E c \in Conns :
        \/ HandleSaveStat(c)
        \/ HandleSaveRename(c)
        \/ SaveToDiskLock(c)
        \/ SaveToDiskCreate(c)
        \/ SaveToDiskCreateFails(c)
        \/ SaveToDiskRange(c)
        \/ SaveToDiskEncode(c)
        \/ SaveToDiskEncodeFails(c)
        \/ SaveToDiskUnlock(c)
        \/ HandleSaveRestore(c)
        \/ HandleSaveRemove(c)
        \/ HandlerGetTableLock(c)
        \/ HandlerGetTable(c)
        \/ HandlerTableLock(c)
        \/ HandlerTableMethod(c)
        \/ HandlerReturn(c)

SurvivalSpec == SurvivalInit /\ [][SurvivalNext]_vars

(***************************************************************************)
(* C31 (the primary snapshot survives concurrent saves): a complete        *)
(* snapshot being stored at the default path at the start, once all Save   *)
(* commands and auto-saves have returned, some of their writes having      *)
(* failed, the file at the default path is a complete snapshot.            *)
(***************************************************************************)
C31_PrimarySnapshotSurvives ==
    AllDone => fs[DEFAULT_DB_FILE].state = "json"

====
